---- MODULE Spec2Model ----
(***************************************************************************)
(* Model of the 1inch portfolio core of emmette/optimizedefi:              *)
(*   OneInchAPIClient (rate limiter), TokensAPI / PricesAPI (TTL caches),  *)
(*   BalancesAPI (dust filter, multi-chain fan-out) and PortfolioService   *)
(*   (aggregation, top tokens).                                            *)
(* Time is Date.now() in milliseconds.  Money is kept exact: a USD value   *)
(* is held in micro-dollars (all modelled tokens have 6 decimals), and an  *)
(* allocation is a whole percentage, (value * 100) \div total.             *)
(***************************************************************************)
EXTENDS Integers, Sequences, FiniteSets, TLC

(***************************************************************************)
(* Program constants                                                       *)
(***************************************************************************)
MAX_REQUESTS_PER_MINUTE == 30
RATE_LIMIT_WINDOW == 60000
TOKEN_CACHE_DURATION == 3600000
PRICE_CACHE_DURATION == 60000

(***************************************************************************)
(* Bounds of the model                                                     *)
(***************************************************************************)
\* the clock is read just before and just after the ends of MaxPeriods rate-limit windows
MaxPeriods == 1
\* requests issued in one window beyond MAX_REQUESTS_PER_MINUTE
MaxOverflow == 1
\* client.get calls made by stand-alone cache lookups in one behaviour (they may all overlap)
MaxFetches == 2

\* instants around the ends of the rate-limit windows (and of the price cache entries)
Instants ==
  {1 + k * RATE_LIMIT_WINDOW + j : k \in 0..MaxPeriods, j \in 0..1}

\* the instants just before and just after a cache entry written at 1 or 2 expires
CacheInstants ==
  {1 + d + j : d \in {0, PRICE_CACHE_DURATION, TOKEN_CACHE_DURATION}, j \in 0..1}

(***************************************************************************)
(* JavaScript Map / object helpers                                         *)
(***************************************************************************)
Has(m, k) == k \in DOMAIN m
Get(m, k, default) == IF k \in DOMAIN m THEN m[k] ELSE default
Put(m, k, v) == [x \in (DOMAIN m) \cup {k} |-> IF x = k THEN v ELSE m[x]]
EmptyMap == [x \in {} |-> 0]

\* the value of an expression written { e : x \in {v} }: e with the constant x bound to v
Where(S) == CHOOSE y \in S : TRUE

\* String.prototype.toLowerCase on the modelled addresses ("0xAB" is checksummed)
ToLowerCase(a) == IF a = "0xAB" THEN "0xab" ELSE a

\* position of an address in the default (code unit) order of Array.prototype.sort
SortRank(a) ==
  CASE a = "0xAB" -> 1
    [] a = "0xa" -> 2
    [] a = "0xab" -> 3
    [] a = "0xb" -> 4
    [] a = "0xc" -> 5
    [] a = "0xd" -> 6
    [] a = "0xeeee" -> 7
    [] OTHER -> 8

\* Array.prototype.sort by ascending key; it is stable: equal keys keep their order.
\* An element's place is the number of elements that sort before it.
StableSort(s, key) ==
  LET n == Len(s)
      place == [i \in 1..n |->
                  1 + Cardinality({j \in 1..n :
                                     \/ key[s[j]] < key[s[i]]
                                     \/ key[s[j]] = key[s[i]] /\ j < i})]
  IN [p \in 1..n |-> s[CHOOSE i \in 1..n : place[i] = p]]

\* tokenAddresses.sort()
SortAddresses(s) == StableSort(s, [a \in {s[i] : i \in DOMAIN s} |-> SortRank(a)])

Range(s) == {s[i] : i \in DOMAIN s}

(***************************************************************************)
(* Endpoint keys: the string passed to request(), path plus query string   *)
(***************************************************************************)
BalanceEndpoint(chainId) == [api |-> "balance", chain |-> chainId, q |-> <<>>]
TokensEndpoint(chainId) == [api |-> "tokens", chain |-> chainId, q |-> <<>>]
CustomEndpoint(chainId, joined) == [api |-> "custom", chain |-> chainId, q |-> joined]
PriceEndpoint(chainId, sorted) == [api |-> "price", chain |-> chainId, q |-> sorted]

\* endpoint keys exercised directly against the client
RateEndpoints == {TokensEndpoint(1), TokensEndpoint(137)}

VARIABLES
  now,             \* Date.now()
  initError,       \* OneInchAPIClient.initError # null
  rateLimitState,  \* OneInchAPIClient.rateLimitState : Map endpoint -> RateLimitState
  opened,          \* history: time at which the endpoint's current window was opened
  issued,          \* history: requests issued for the endpoint since its window was opened
  calls,           \* history: network calls dispatched for the endpoint since its window was opened
  last,            \* history: endpoint and outcome of the latest request()
  tokenCache,      \* TokensAPI.tokenCache : Map chainId -> TokenList
  tokenTimestamps, \* TokensAPI.cacheTimestamps
  priceCache,      \* PricesAPI.priceCache : Map cache key -> TokenPrice
  priceTimestamps, \* PricesAPI.cacheTimestamps
  flights,         \* network calls dispatched by the API classes and not yet answered
  fetchCount,      \* history: client.get calls made by stand-alone cache lookups
  lookup,          \* history: the latest stand-alone cache lookup and what it returned at once
  outcome,         \* history: the latest request() run from call to return: the upstream's
                   \* answer, if it was asked, and the error request() threw
  returned,        \* history: the latest stand-alone lookup run from call to return: its address
                   \* arguments, those of the lookup before it, and what it gave its caller
  pc,              \* getPortfolio: "idle", "balances", "pipelines", "done" or "threw"
  chainIds,        \* getPortfolio: its chainIds argument
  balanceResults,  \* getMultiChainBalances: what getBalances returned, per position of chainIds
  chainBalances,   \* getPortfolio: the result of getAllNonZeroBalances
  pipelines,       \* processChainPortfolio: one frame per element of chainBalances
  chainPortfolios, \* getPortfolio: the settled processChainPortfolio promises
  heap,            \* the PortfolioToken objects, by reference
  portfolio,       \* getPortfolio: the Portfolio it returned
  stats,           \* the latest statistics call: its input and what it returned
  total,           \* the latest calculateTotalValue call: its input and what it returned
  chatHook,        \* useChat: the component's state and the wsClient ref
  chatClient       \* the ChatWebSocketClient the hook created last: its fields, its pending
                   \* timers and the history of what it did

clientVars == <<initError, rateLimitState, opened, issued, calls, last>>
cacheVars == <<tokenCache, tokenTimestamps, priceCache, priceTimestamps>>
callerVars == <<fetchCount, lookup, outcome, returned>>
portfolioVars == <<pc, chainIds, balanceResults, chainBalances, pipelines,
                   chainPortfolios, heap, portfolio>>
chatVars == <<chatHook, chatClient>>
vars == <<now, clientVars, cacheVars, flights, callerVars, portfolioVars, stats, total,
          chatVars>>

NoRequest == [endpoint |-> BalanceEndpoint(0), result |-> "none"]
NoPortfolio == [totalValueUSD |-> 0, chains |-> <<>>, topTokens |-> <<>>]
\* a JavaScript number that may be NaN
Number(n) == [nan |-> FALSE, value |-> n]
NaN == [nan |-> TRUE, value |-> 0]
NoStats == [op |-> "none", tokens |-> <<>>, allocations |-> <<>>, score |-> Number(0),
            largest |-> 0, risk |-> "none"]
NoLookup == [api |-> "none", chain |-> 0, q |-> <<>>, state |-> "none",
             tokens |-> [defined |-> TRUE, tokens |-> {}], prices |-> <<>>]
\* useChat before the component is mounted.  address "" is no connected wallet;
\* current says whether wsClient.current holds the client
NoHook == [mounted |-> "no", address |-> "", current |-> FALSE, messages |-> <<>>,
           isConnected |-> FALSE, isTyping |-> FALSE, asked |-> 0]
\* new ChatWebSocketClient(clientId).  ws is "null" or the readyState of this.ws;
\* connectionTimeout and timers are the pending timers; delay is that of the
\* reconnect timer set last, streak the reconnects begun since the socket was last
\* open, sent the ws.send calls and content what was sent last
NewClient(clientId) ==
  [clientId |-> clientId, ws |-> "null", reconnectAttempts |-> 0,
   isIntentionalDisconnect |-> FALSE, connectionTimeout |-> FALSE, timers |-> 0,
   delay |-> 0, streak |-> 0, sent |-> 0, content |-> ""]
\* an exact amount of USD: centi hundredths plus atto times 10^-18
Amount(centi, atto) == [centi |-> centi, atto |-> atto]
NoTotal == [op |-> "none", balances |-> <<>>, tokenDecimals |-> <<>>, prices |-> <<>>,
            value |-> Amount(0, 0), threw |-> FALSE]
\* number | undefined
Undefined == [defined |-> FALSE, value |-> 0]
Defined(n) == [defined |-> TRUE, value |-> n]
\* no error was thrown
NoError == [thrown |-> FALSE, message |-> "none", statusCode |-> Undefined,
            response |-> "undefined"]
NoAnswer == [kind |-> "none"]
NoOutcome == [endpoint |-> BalanceEndpoint(0), result |-> "none", answer |-> NoAnswer,
              error |-> NoError]
\* number | null
Null == [null |-> TRUE, value |-> 0]
NoReturn == [api |-> "none", args |-> <<>>, before |-> <<>>, cause |-> "none",
             threw |-> FALSE,
             tokens |-> [defined |-> TRUE, tokens |-> {}], prices |-> <<>>, price |-> Null]

(***************************************************************************)
(* OneInchAPIClient                                                        *)
(***************************************************************************)
RateLimitReset(t) == [requests |-> 1, resetTime |-> t + RATE_LIMIT_WINDOW]

\* checkRateLimit that counts a request let into an open window twice
CheckRateLimitCountTwice(rl, endpoint, t) ==
  IF ~Has(rl, endpoint) \/ t > rl[endpoint].resetTime
  THEN [pass |-> TRUE, rl |-> Put(rl, endpoint, RateLimitReset(t))]
  ELSE IF rl[endpoint].requests >= MAX_REQUESTS_PER_MINUTE
       THEN [pass |-> FALSE, rl |-> rl]
       ELSE [pass |-> TRUE, rl |-> [rl EXCEPT ![endpoint].requests = @ + 2]]

\* checkRateLimit with the quota test off by one (> for >=)
CheckRateLimitOffByOne(rl, endpoint, t) ==
  IF ~Has(rl, endpoint) \/ t > rl[endpoint].resetTime
  THEN [pass |-> TRUE, rl |-> Put(rl, endpoint, RateLimitReset(t))]
  ELSE IF rl[endpoint].requests > MAX_REQUESTS_PER_MINUTE
       THEN [pass |-> FALSE, rl |-> rl]
       ELSE [pass |-> TRUE, rl |-> [rl EXCEPT ![endpoint].requests = @ + 1]]

\* checkRateLimit counting the request before the quota test
CheckRateLimitCountFirst(rl, endpoint, t) ==
  IF ~Has(rl, endpoint) \/ t > rl[endpoint].resetTime
  THEN [pass |-> TRUE, rl |-> Put(rl, endpoint, RateLimitReset(t))]
  ELSE IF rl[endpoint].requests >= MAX_REQUESTS_PER_MINUTE
       THEN [pass |-> FALSE, rl |-> [rl EXCEPT ![endpoint].requests = @ + 1]]
       ELSE [pass |-> TRUE, rl |-> [rl EXCEPT ![endpoint].requests = @ + 1]]

\* checkRateLimit(endpoint) at Date.now() = t: pass = it returned, ~pass = it threw
CheckRateLimit(rl, endpoint, t) ==
  IF ~Has(rl, endpoint) \/ t > rl[endpoint].resetTime
  THEN [pass |-> TRUE, rl |-> Put(rl, endpoint, RateLimitReset(t))]
  ELSE IF rl[endpoint].requests >= MAX_REQUESTS_PER_MINUTE
       THEN [pass |-> FALSE, rl |-> rl]
       ELSE [pass |-> TRUE, rl |-> [rl EXCEPT ![endpoint].requests = @ + 1]]

\* request(endpoint) running checkRateLimit before checkInitialization
RequestPrefixRateFirst(err, rl, endpoint, t) ==
  LET c == CheckRateLimit(rl, endpoint, t) IN
  IF ~c.pass THEN [result |-> "rate_limited", rl |-> c.rl]
  ELSE IF err THEN [result |-> "init_error", rl |-> c.rl]
  ELSE [result |-> "dispatched", rl |-> c.rl]

\* the synchronous prefix of request(endpoint): checkInitialization, checkRateLimit,
\* then fetch() is called.  result: "init_error" | "rate_limited" | "dispatched"
RequestPrefix(err, rl, endpoint, t) ==
  IF err
  THEN [result |-> "init_error", rl |-> rl]
  ELSE LET c == CheckRateLimit(rl, endpoint, t) IN
       [result |-> IF c.pass THEN "dispatched" ELSE "rate_limited", rl |-> c.rl]

\* the client state and its history after request(endpoint) is called at time t
\* in client state cl = [rl, opened, issued, calls, last]
ClientRequest(err, cl, endpoint, t) ==
  Where({
    LET reopened == r.result = "dispatched" /\ r.rl[endpoint].requests = 1 IN
    [result |-> r.result,
     rl |-> r.rl,
     opened |-> IF reopened THEN Put(cl.opened, endpoint, t) ELSE cl.opened,
     issued |-> IF r.result = "init_error" THEN cl.issued
                ELSE Put(cl.issued, endpoint,
                         IF reopened THEN 1 ELSE Get(cl.issued, endpoint, 0) + 1),
     calls |-> IF r.result # "dispatched" THEN cl.calls
               ELSE Put(cl.calls, endpoint,
                        IF reopened THEN 1 ELSE Get(cl.calls, endpoint, 0) + 1),
     last |-> [endpoint |-> endpoint, result |-> r.result]]
    : r \in {RequestPrefix(err, cl.rl, endpoint, t)} })

Client == [rl |-> rateLimitState, opened |-> opened, issued |-> issued,
           calls |-> calls, last |-> last]

SetClient(cl) ==
  /\ rateLimitState' = cl.rl
  /\ opened' = cl.opened
  /\ issued' = cl.issued
  /\ calls' = cl.calls
  /\ last' = cl.last

\* some caller invokes client.request(endpoint)
Request(endpoint) ==
  /\ IF Get(issued, endpoint, 0) < MAX_REQUESTS_PER_MINUTE + MaxOverflow
     THEN TRUE
     ELSE now > rateLimitState[endpoint].resetTime
  /\ SetClient(ClientRequest(initError, Client, endpoint, now))
  /\ UNCHANGED <<stats, total, chatVars, now, initError, cacheVars, flights, callerVars, portfolioVars>>

\* new OneInchAPIError(message, statusCode, response).  A message is told by where
\* its text comes from, the response is "undefined", "null" or the parsed "body".
OneInchAPIError(message, statusCode, response) ==
  [thrown |-> TRUE, message |-> message, statusCode |-> statusCode, response |-> response]

\* what request() throws before fetch() is called
PrefixError(result) ==
  CASE result = "init_error" -> OneInchAPIError("not configured", Undefined, "undefined")
    [] result = "rate_limited" -> OneInchAPIError("rate limit", Defined(429), "undefined")
    [] OTHER -> NoError

\* what fetch() can answer: it rejects (a transport-level exception), or resolves
\* with a status and a body that is JSON with a message field, other JSON, or no JSON
Answers ==
  {[kind |-> "exception"]}
    \cup {[kind |-> "response", status |-> st, body |-> b] : st \in {200, 404, 429, 500},
          b \in {"message", "json", "malformed"}}

\* response.ok
Ok(status) == status >= 200 /\ status <= 299

\* request() after fetch() has settled with the answer: the error it throws
RequestSettle(answer) ==
  IF answer.kind = "exception"
  THEN OneInchAPIError("cause", Undefined, "undefined")
  ELSE IF ~Ok(answer.status)
  THEN OneInchAPIError(IF answer.body = "message" THEN "body" ELSE "http status",
                       Defined(answer.status),
                       IF answer.body = "malformed" THEN "null" ELSE "body")
  ELSE IF answer.body = "malformed"
  THEN OneInchAPIError("cause", Undefined, "undefined")
  ELSE NoError

\* some caller invokes client.request(endpoint) and awaits it; the upstream, if it
\* is asked, gives the answer
CallRequest(endpoint, answer) ==
  /\ IF Get(issued, endpoint, 0) < MAX_REQUESTS_PER_MINUTE + MaxOverflow
     THEN TRUE
     ELSE now > rateLimitState[endpoint].resetTime
  /\ \E r \in {ClientRequest(initError, Client, endpoint, now)} :
       /\ SetClient(r)
       /\ outcome' = [endpoint |-> endpoint, result |-> r.result,
                      answer |-> IF r.result = "dispatched" THEN answer ELSE NoAnswer,
                      error |-> IF r.result = "dispatched" THEN RequestSettle(answer)
                                ELSE PrefixError(r.result)]
  /\ UNCHANGED <<stats, total, chatVars, now, initError, cacheVars, flights, fetchCount, lookup, returned,
                 portfolioVars>>

\* time passes; the clock is next read at one of the given instants
Tick(instants) ==
  /\ \E t \in instants : t > now /\ now' = t
  /\ UNCHANGED <<stats, total, chatVars, clientVars, cacheVars, flights, callerVars, portfolioVars>>

(***************************************************************************)
(* Upstream responses.  A response is [status, ...]: status "ok" carries   *)
(* the parsed JSON body, "http_error" is a non-2xx answer and              *)
(* "network_error" an exception of fetch(); request() throws for both.     *)
(***************************************************************************)
Failures == {[status |-> "http_error"], [status |-> "network_error"]}

\* a TokenList is the set of its tokens' address fields; defined = FALSE is a
\* 200 body without the tokens property (response.tokens === undefined)
TokenList(addresses) == [defined |-> TRUE, tokens |-> addresses]
UndefinedTokenList == [defined |-> FALSE, tokens |-> {}]
EmptyTokenList == TokenList({})


TokensResponses ==
  Failures \cup {[status |-> "ok", tokens |-> l] :
                   l \in {TokenList({"0xa", "0xab", "0xb", "0xc", "0xd", "0xeeee", "0xf"}),
                         TokenList({"0xa", "0xab", "0xc", "0xd", "0xeeee", "0xf"}),
                         UndefinedTokenList}}

\* the price string the upstream quotes for a (lower case) address, as parseFloat reads it
Quote(a) == CASE a = "0xa" -> 2 [] a = "0xeeee" -> 3 [] OTHER -> 1

\* the price body for a query: every queried address, or all of them but "0xa"
PricesResponses(q) ==
  LET asked == {ToLowerCase(q[i]) : i \in DOMAIN q} IN
  Failures \cup {[status |-> "ok", prices |-> [a \in asked \ hidden |-> Quote(a)]] :
                   hidden \in {{}, {"0xa"}}}

(***************************************************************************)
(* TokensAPI and PricesAPI: the two TTL caches                             *)
(***************************************************************************)
\* isCacheValid that never looks at the age of the entry
TokensIsCacheValidForever(timestamps, key, t) ==
  Has(timestamps, key) /\ timestamps[key] # 0

\* TokensAPI.isCacheValid(key) at Date.now() = t
TokensIsCacheValid(timestamps, key, t) ==
  /\ Has(timestamps, key)
  /\ timestamps[key] # 0
  /\ t - timestamps[key] < TOKEN_CACHE_DURATION

\* PricesAPI.isCacheValid(key) at Date.now() = t
PricesIsCacheValid(timestamps, key, t) ==
  /\ Has(timestamps, key)
  /\ timestamps[key] # 0
  /\ t - timestamps[key] < PRICE_CACHE_DURATION

\* a cache key made of the addresses in the order they were passed in
PriceCacheKeyUnsorted(chainId, tokenAddresses) ==
  [chain |-> chainId, q |-> tokenAddresses, currency |-> "USD"]

\* `prices-${chainId}-${tokenAddresses.sort().join(',')}-${currency}`
PriceCacheKey(chainId, tokenAddresses) ==
  [chain |-> chainId, q |-> SortAddresses(tokenAddresses), currency |-> "USD"]

\* a network call in flight: who awaits it (owner 0: a stand-alone caller), and when it began
Flight(kind, owner, chainId, q, t) ==
  [kind |-> kind, owner |-> owner, chain |-> chainId, q |-> q, started |-> t]

\* getTokens(chainId) up to its first await, called at time t with client state cl
\* and flights fl: state "hit" (cached value returned), "pending" (network call
\* dispatched) or "failed" (client.get threw at once, {} returned)
GetTokensStart(cl, fl, chainId, owner, t) ==
  IF TokensIsCacheValid(tokenTimestamps, chainId, t)
  THEN [cl |-> cl, flights |-> fl, state |-> "hit", value |-> tokenCache[chainId],
        threw |-> FALSE]
  ELSE Where({
         IF r.result = "dispatched"
         THEN [cl |-> r, flights |-> fl \cup {Flight("tokens", owner, chainId, <<>>, t)},
               state |-> "pending", value |-> EmptyTokenList, threw |-> FALSE]
         ELSE [cl |-> r, flights |-> fl, state |-> "failed", value |-> EmptyTokenList,
               threw |-> FALSE]
         : r \in {ClientRequest(initError, cl, TokensEndpoint(chainId), t)} })

\* getTokens storing the answer even when the request failed
TokensSettleAlways(resp, chainId, t) ==
  [cache |-> Put(tokenCache, chainId,
                 IF resp.status = "ok" THEN resp.tokens ELSE EmptyTokenList),
   timestamps |-> Put(tokenTimestamps, chainId, t),
   value |-> IF resp.status = "ok" THEN resp.tokens ELSE EmptyTokenList,
   threw |-> FALSE]

\* getTokens after its await: the cache is written at Date.now() = t on success only
TokensSettle(resp, chainId, t) ==
  IF resp.status = "ok"
  THEN [cache |-> Put(tokenCache, chainId, resp.tokens),
        timestamps |-> Put(tokenTimestamps, chainId, t),
        value |-> resp.tokens, threw |-> FALSE]
  ELSE [cache |-> tokenCache, timestamps |-> tokenTimestamps, value |-> EmptyTokenList,
        threw |-> FALSE]

\* getTokenPrices(chainId, tokenAddresses) up to its first await
GetTokenPricesStart(cl, fl, chainId, tokenAddresses, owner, t) ==
  LET key == PriceCacheKey(chainId, tokenAddresses) IN
  IF Len(tokenAddresses) = 0
  THEN [cl |-> cl, flights |-> fl, state |-> "empty", value |-> EmptyMap, threw |-> FALSE]
  ELSE IF PricesIsCacheValid(priceTimestamps, key, t)
  THEN [cl |-> cl, flights |-> fl, state |-> "hit", value |-> priceCache[key],
        threw |-> FALSE]
  ELSE Where({
         IF r.result = "dispatched"
         THEN [cl |-> r, flights |-> fl \cup {Flight("prices", owner, chainId, key.q, t)},
               state |-> "pending", value |-> EmptyMap, threw |-> FALSE]
         ELSE [cl |-> r, flights |-> fl, state |-> "failed", value |-> EmptyMap,
               threw |-> FALSE]
         : r \in {ClientRequest(initError, cl, PriceEndpoint(chainId, key.q), t)} })

\* getTokenPrices whose catch block throws the error on
PricesSettleRethrow(resp, key, t) ==
  IF resp.status = "ok"
  THEN [cache |-> Put(priceCache, key, resp.prices),
        timestamps |-> Put(priceTimestamps, key, t),
        value |-> resp.prices, threw |-> FALSE]
  ELSE [cache |-> priceCache, timestamps |-> priceTimestamps, value |-> EmptyMap,
        threw |-> TRUE]

\* getTokenPrices after its await: the catch block logs the error and returns {}
PricesSettle(resp, key, t) ==
  IF resp.status = "ok"
  THEN [cache |-> Put(priceCache, key, resp.prices),
        timestamps |-> Put(priceTimestamps, key, t),
        value |-> resp.prices, threw |-> FALSE]
  ELSE [cache |-> priceCache, timestamps |-> priceTimestamps, value |-> EmptyMap,
        threw |-> FALSE]

(***************************************************************************)
(* Stand-alone callers of the two caches                                   *)
(***************************************************************************)
CacheChains == {1}
AddressLists == {<<>>, <<"0xa", "0xb">>, <<"0xb", "0xa">>}

\* stand-alone lookups in flight are told apart by the instant they began at
Distinct(kind, chainId, q) == Flight(kind, 0, chainId, q, now) \notin flights

\* a caller invokes tokensAPI.getTokens(chainId)
CallGetTokens(chainId) ==
  /\ \/ TokensIsCacheValid(tokenTimestamps, chainId, now)
     \/ fetchCount < MaxFetches /\ Distinct("tokens", chainId, <<>>)
  /\ \E g \in {GetTokensStart(Client, flights, chainId, 0, now)} :
        /\ SetClient(g.cl)
        /\ flights' = g.flights
        /\ fetchCount' = IF g.state = "hit" THEN fetchCount ELSE fetchCount + 1
        /\ lookup' = [api |-> "tokens", chain |-> chainId, q |-> <<>>,
                      state |-> g.state, tokens |-> g.value, prices |-> EmptyMap]
  /\ UNCHANGED <<stats, total, chatVars, now, initError, cacheVars, outcome, returned, portfolioVars>>

\* a caller invokes pricesAPI.getTokenPrices(chainId, tokenAddresses)
CallGetTokenPrices(chainId, tokenAddresses) ==
  LET key == PriceCacheKey(chainId, tokenAddresses)
      cold == Len(tokenAddresses) # 0 /\ ~PricesIsCacheValid(priceTimestamps, key, now)
  IN
  /\ cold => fetchCount < MaxFetches /\ Distinct("prices", chainId, key.q)
  /\ \E g \in {GetTokenPricesStart(Client, flights, chainId, tokenAddresses, 0, now)} :
        /\ SetClient(g.cl)
        /\ flights' = g.flights
        /\ fetchCount' = IF cold THEN fetchCount + 1 ELSE fetchCount
        /\ lookup' = [api |-> "prices", chain |-> chainId, q |-> key.q,
                      state |-> g.state, tokens |-> EmptyTokenList, prices |-> g.value]
  /\ UNCHANGED <<stats, total, chatVars, now, initError, cacheVars, outcome, returned, portfolioVars>>

\* the upstream answers a stand-alone getTokens
TokensArrive(f, resp) ==
  /\ f \in flights /\ f.kind = "tokens" /\ f.owner = 0
  /\ LET r == TokensSettle(resp, f.chain, now) IN
       /\ tokenCache' = r.cache
       /\ tokenTimestamps' = r.timestamps
  /\ flights' = flights \ {f}
  /\ UNCHANGED <<stats, total, chatVars, now, clientVars, priceCache, priceTimestamps, callerVars, portfolioVars>>

\* the upstream answers a stand-alone getTokenPrices
PricesArrive(f, resp) ==
  /\ f \in flights /\ f.kind = "prices" /\ f.owner = 0
  /\ LET r == PricesSettle(resp, [chain |-> f.chain, q |-> f.q, currency |-> "USD"], now) IN
       /\ priceCache' = r.cache
       /\ priceTimestamps' = r.timestamps
  /\ flights' = flights \ {f}
  /\ UNCHANGED <<stats, total, chatVars, now, clientVars, tokenCache, tokenTimestamps, callerVars, portfolioVars>>

\* the module-level singletons right after construction; new OneInchAPIClient()
\* finds the API key configured or not
Init ==
  /\ initError \in BOOLEAN
  /\ now = 1
  /\ rateLimitState = EmptyMap
  /\ opened = EmptyMap
  /\ issued = EmptyMap
  /\ calls = EmptyMap
  /\ last = NoRequest
  /\ tokenCache = EmptyMap
  /\ tokenTimestamps = EmptyMap
  /\ priceCache = EmptyMap
  /\ priceTimestamps = EmptyMap
  /\ flights = {}
  /\ fetchCount = 0
  /\ lookup = NoLookup
  /\ outcome = NoOutcome
  /\ returned = NoReturn
  /\ pc = "idle"
  /\ chainIds = <<>>
  /\ balanceResults = <<>>
  /\ chainBalances = <<>>
  /\ pipelines = <<>>
  /\ chainPortfolios = EmptyMap
  /\ heap = EmptyMap
  /\ portfolio = NoPortfolio
  /\ stats = NoStats
  /\ total = NoTotal
  /\ chatHook = NoHook
  /\ chatClient = NewClient("")

Next ==
  \/ \E e \in RateEndpoints : Request(e)
  \/ Tick(Instants)

Spec == Init /\ [][Next]_vars

\* the client under requests that are awaited one after the other, within one
\* rate-limit window
NextRequest ==
  \E e \in RateEndpoints, answer \in Answers : CallRequest(e, answer)

SpecRequest == Init /\ [][NextRequest]_vars

\* the caches under concurrent stand-alone lookups
NextCache ==
  \/ \E c \in CacheChains : CallGetTokens(c)
  \/ \E c \in CacheChains, l \in AddressLists : CallGetTokenPrices(c, l)
  \/ \E f \in flights, resp \in TokensResponses : TokensArrive(f, resp)
  \/ \E f \in flights : \E resp \in PricesResponses(f.q) : PricesArrive(f, resp)
  \/ Tick(CacheInstants)

SpecCache == Init /\ [][NextCache]_vars

(***************************************************************************)
(* Stand-alone lookups run from call to return: the upstream answer, if    *)
(* one is asked for, is an input of the call.  The clock stands still: no  *)
(* cache entry expires and no rate-limit window is reopened.               *)
(***************************************************************************)
PriceAddresses == {"0xa", "0xAB"}

\* why a lookup that began as g did not return the upstream's value: "hit" and
\* "empty" never asked, "init_error" and "rate_limited" are errors request() threw
\* before its fetch, the others the answer's status
Cause(g, resp) ==
  CASE g.state = "pending" -> resp.status
    [] g.state = "failed" -> g.cl.last.result
    [] OTHER -> g.state

\* getTokens(chainId), the upstream answering resp
LookupTokens(chainId, resp) ==
  /\ TokensIsCacheValid(tokenTimestamps, chainId, now) \/ fetchCount < MaxFetches
  /\ \E g \in {GetTokensStart(Client, flights, chainId, 0, now)} :
     \E r \in {IF g.state = "pending" THEN TokensSettle(resp, chainId, now)
               ELSE [cache |-> tokenCache, timestamps |-> tokenTimestamps,
                     value |-> g.value, threw |-> g.threw]} :
        /\ SetClient(g.cl)
        /\ tokenCache' = r.cache
        /\ tokenTimestamps' = r.timestamps
        /\ fetchCount' = IF g.state = "hit" THEN fetchCount ELSE fetchCount + 1
        /\ lookup' = [api |-> "tokens", chain |-> chainId, q |-> <<>>,
                      state |-> g.state, tokens |-> g.value, prices |-> EmptyMap]
        /\ returned' = [api |-> "tokens", args |-> <<>>, before |-> returned.args,
                        cause |-> Cause(g, resp), threw |-> r.threw,
                        tokens |-> r.value, prices |-> EmptyMap, price |-> Null]
  /\ UNCHANGED <<stats, total, chatVars, now, initError, priceCache, priceTimestamps, flights, outcome,
                 portfolioVars>>

\* getTokenPrices(chainId, tokenAddresses) from call to return: what it returns
\* and the caches it leaves
GetTokenPrices(g, resp, key, t) ==
  IF g.state = "pending" THEN PricesSettle(resp, key, t)
  ELSE [cache |-> priceCache, timestamps |-> priceTimestamps,
        value |-> g.value, threw |-> g.threw]

\* getTokenPrices(chainId, tokenAddresses), the upstream answering resp
LookupPrices(chainId, tokenAddresses, resp) ==
  /\ \E key \in {PriceCacheKey(chainId, tokenAddresses)} :
     \E g \in {GetTokenPricesStart(Client, flights, chainId, tokenAddresses, 0, now)} :
     \E r \in {GetTokenPrices(g, resp, key, now)} :
        /\ g.state \in {"pending", "failed"} => fetchCount < MaxFetches
        /\ SetClient(g.cl)
        /\ priceCache' = r.cache
        /\ priceTimestamps' = r.timestamps
        /\ fetchCount' = IF g.state \in {"pending", "failed"} THEN fetchCount + 1
                         ELSE fetchCount
        /\ lookup' = [api |-> "prices", chain |-> chainId, q |-> key.q,
                      state |-> g.state, tokens |-> EmptyTokenList, prices |-> g.value]
        /\ returned' = [api |-> "prices", args |-> tokenAddresses,
                        before |-> returned.args, cause |-> Cause(g, resp), threw |-> r.threw,
                        tokens |-> EmptyTokenList, prices |-> r.value, price |-> Null]
  /\ UNCHANGED <<stats, total, chatVars, now, initError, tokenCache, tokenTimestamps, flights, outcome,
                 portfolioVars>>

\* getTokenPrice after its await: prices[tokenAddress.toLowerCase()], null when
\* the map has no price string under that key
GetTokenPriceResume(prices, tokenAddress) ==
  IF Has(prices, ToLowerCase(tokenAddress))
  THEN [null |-> FALSE, value |-> prices[ToLowerCase(tokenAddress)]]
  ELSE Null

\* getTokenPrice(chainId, tokenAddress), the upstream answering resp
LookupPrice(chainId, tokenAddress, resp) ==
  /\ \E key \in {PriceCacheKey(chainId, <<tokenAddress>>)} :
     \E g \in {GetTokenPricesStart(Client, flights, chainId, <<tokenAddress>>, 0, now)} :
     \E r \in {GetTokenPrices(g, resp, key, now)} :
        /\ g.state \in {"pending", "failed"} => fetchCount < MaxFetches
        /\ SetClient(g.cl)
        /\ priceCache' = r.cache
        /\ priceTimestamps' = r.timestamps
        /\ fetchCount' = IF g.state \in {"pending", "failed"} THEN fetchCount + 1
                         ELSE fetchCount
        /\ lookup' = [api |-> "prices", chain |-> chainId, q |-> key.q,
                      state |-> g.state, tokens |-> EmptyTokenList, prices |-> g.value]
        /\ returned' = [api |-> "price", args |-> <<tokenAddress>>,
                        before |-> returned.args, cause |-> Cause(g, resp), threw |-> r.threw,
                        tokens |-> EmptyTokenList, prices |-> EmptyMap,
                        price |-> IF r.threw THEN Null
                                  ELSE GetTokenPriceResume(r.value, tokenAddress)]
  /\ UNCHANGED <<stats, total, chatVars, now, initError, tokenCache, tokenTimestamps, flights, outcome,
                 portfolioVars>>

\* the client after n more request(endpoint) calls at Date.now() = t
RECURSIVE Requests(_, _, _, _)
Requests(cl, endpoint, n, t) ==
  IF n = 0 THEN cl
  ELSE Where({ Requests(c, endpoint, n - 1, t)
               : c \in {ClientRequest(initError, cl, endpoint, t)} })

\* before the lookups begin, another user of the shared client makes
\* MAX_REQUESTS_PER_MINUTE requests for an endpoint nobody has asked for yet
Burst(endpoint) ==
  /\ fetchCount = 0
  /\ Get(issued, endpoint, 0) = 0
  /\ SetClient(Requests(Client, endpoint, MAX_REQUESTS_PER_MINUTE, now))
  /\ UNCHANGED <<stats, total, chatVars, now, initError, cacheVars, flights, callerVars, portfolioVars>>

NextLookup ==
  \/ \E c \in CacheChains, resp \in TokensResponses : LookupTokens(c, resp)
  \/ \E c \in CacheChains, l \in AddressLists :
       \E resp \in PricesResponses(l) : LookupPrices(c, l, resp)
  \/ \E c \in CacheChains, a \in PriceAddresses :
       \E resp \in PricesResponses(<<a>>) : LookupPrice(c, a, resp)
  \/ \E e \in {TokensEndpoint(c) : c \in CacheChains}
              \cup {PriceEndpoint(c, SortAddresses(l)) :
                       c \in CacheChains, l \in AddressLists \ {<<>>}}
              \cup {PriceEndpoint(c, <<a>>) : c \in CacheChains, a \in PriceAddresses} :
       Burst(e)

SpecLookup == Init /\ [][NextLookup]_vars

(***************************************************************************)
(* PricesAPI.calculateTotalValue.  A balance string is the whole number it *)
(* spells, a price the whole number parseFloat reads, and the quotient by  *)
(* 10^decimals is kept exact: an amount is a number of hundredths plus a   *)
(* number of 10^-18ths, so decimals are 0, 1, 2 or 18.                     *)
(***************************************************************************)
DEFAULT_DECIMALS == 18
MaxEntries == 2

\* balances objects: up to MaxEntries keys, each address once
BalanceMaps ==
  {b \in UNION {[1..n -> [address : {"0xa", "0xAB", "0xb"}, balance : {0, 3}]] :
                  n \in 0..MaxEntries} :
     \A i, j \in DOMAIN b : b[i].address = b[j].address => i = j}

\* tokenDecimals objects for a balances object: decimals for each of its
\* addresses, under the lower-case address
DecimalMaps(b) ==
  [{ToLowerCase(b[i].address) : i \in DOMAIN b} -> {0, 1, 2, DEFAULT_DECIMALS}]

\* (Number(balance) / Math.pow(10, decimals)) * parseFloat(price)
TokenValue(balance, decimals, price) ==
  CASE decimals = 0 -> Amount(balance * price * 100, 0)
    [] decimals = 1 -> Amount(balance * price * 10, 0)
    [] decimals = 2 -> Amount(balance * price, 0)
    [] OTHER -> Amount(0, balance * price)

RECURSIVE SumAmounts(_)
SumAmounts(s) ==
  IF s = <<>> THEN Amount(0, 0)
  ELSE Where({ Amount(Head(s).centi + rest.centi, Head(s).atto + rest.atto)
               : rest \in {SumAmounts(Tail(s))} })

\* tokenDecimals[tokenAddress.toLowerCase()] || 18: 0 is falsy
DecimalsOr(tokenDecimals, a) ==
  IF Has(tokenDecimals, a) /\ tokenDecimals[a] # 0 THEN tokenDecimals[a]
  ELSE DEFAULT_DECIMALS

\* the loop of calculateTotalValue over Object.entries(balances)
TotalOf(balances, tokenDecimals, prices) ==
  SumAmounts([i \in DOMAIN balances |->
     IF Has(prices, ToLowerCase(balances[i].address)) /\ balances[i].balance # 0
     THEN TokenValue(balances[i].balance,
                     DecimalsOr(tokenDecimals, ToLowerCase(balances[i].address)),
                     prices[ToLowerCase(balances[i].address)])
     ELSE Amount(0, 0)])

\* Object.keys(balances)
Keys(balances) == [i \in DOMAIN balances |-> balances[i].address]

\* calculateTotalValue(chainId, balances, tokenDecimals), the upstream answering resp
CalculateTotalValue(chainId, balances, tokenDecimals, resp) ==
  /\ IF Len(balances) = 0
     THEN /\ total' = [op |-> "value", balances |-> balances,
                       tokenDecimals |-> tokenDecimals, prices |-> EmptyMap,
                       value |-> Amount(0, 0), threw |-> FALSE]
          /\ UNCHANGED <<clientVars, priceCache, priceTimestamps>>
     ELSE \E key \in {PriceCacheKey(chainId, Keys(balances))} :
          \E g \in {GetTokenPricesStart(Client, flights, chainId, Keys(balances), 0, now)} :
          \E r \in {GetTokenPrices(g, resp, key, now)} :
             /\ SetClient(g.cl)
             /\ UNCHANGED initError
             /\ priceCache' = r.cache
             /\ priceTimestamps' = r.timestamps
             /\ total' = [op |-> "value", balances |-> balances,
                          tokenDecimals |-> tokenDecimals, prices |-> r.value,
                          value |-> TotalOf(balances, tokenDecimals, r.value),
                          threw |-> r.threw]
  /\ UNCHANGED <<stats, chatVars, now, tokenCache, tokenTimestamps, flights, callerVars,
                 portfolioVars>>

\* one call per behaviour
NextValue ==
  total.op = "none"
    /\ \E c \in CacheChains, balances \in BalanceMaps :
         \E tokenDecimals \in DecimalMaps(balances), resp \in PricesResponses(Keys(balances)) :
           CalculateTotalValue(c, balances, tokenDecimals, resp)

SpecValue == Init /\ [][NextValue]_vars

(***************************************************************************)
(* BalancesAPI.  A WalletBalance is the sequence of its entries, in the    *)
(* order Object.entries enumerates them; a balance string is the integer   *)
(* BigInt() and Number() read from it.                                     *)
(***************************************************************************)
DUST_THRESHOLD == 1000000

Entry(address, balance) == [address |-> address, balance |-> balance]

\* nothing above the dust threshold
BalancesDust == <<Entry("0xa", 0), Entry("0xb", 500000), Entry("0xc", 1000000)>>
\* on both sides of the threshold, one address checksummed
BalancesEdge == <<Entry("0xc", 1000000), Entry("0xb", 1000001), Entry("0xAB", 3000000)>>
\* six holdings, the native token among them
BalancesWide == <<Entry("0xd", 2000000), Entry("0xa", 4000000), Entry("0xf", 5000000),
                  Entry("0xeeee", 2000000), Entry("0xc", 3000000), Entry("0xb", 7000000)>>

BalancesResponses ==
  Failures \cup {[status |-> "ok", balances |-> b] :
                   b \in {BalancesDust, BalancesEdge, BalancesWide}}

\* filterNonZeroBalances keeping the balances equal to the threshold
FilterNonZeroBalancesInclusive(balances, threshold) ==
  SelectSeq(balances, LAMBDA e : e.balance >= threshold)

\* filterNonZeroBalances(balances, threshold)
FilterNonZeroBalances(balances, threshold) ==
  SelectSeq(balances, LAMBDA e : e.balance > threshold)

RECURSIVE GetMultiChainBalancesStart(_, _, _, _)
\* getMultiChainBalances up to its await: getBalances is called for each chain in
\* turn; a request that throws at once makes getBalances return {}
GetMultiChainBalancesStart(ids, cl, fl, t) ==
  IF ids = <<>> THEN [cl |-> cl, flights |-> fl, results |-> <<>>]
  ELSE Where({
         Where({
           IF r.result = "dispatched"
           THEN [cl |-> r,
                 flights |-> before.flights \cup
                               {Flight("balances", Len(ids), ids[Len(ids)], <<>>, t)},
                 results |-> Append(before.results,
                                    [state |-> "pending", balances |-> <<>>])]
           ELSE [cl |-> r, flights |-> before.flights,
                 results |-> Append(before.results,
                                    [state |-> "failed", balances |-> <<>>])]
           : r \in {ClientRequest(initError, before.cl,
                                  BalanceEndpoint(ids[Len(ids)]), t)} })
         : before \in {GetMultiChainBalancesStart(SubSeq(ids, 1, Len(ids) - 1),
                                                  cl, fl, t)} })

\* getBalances after its await: the body, or {} when the request failed
GetBalancesSettle(resp) ==
  IF resp.status = "ok"
  THEN [state |-> "ok", balances |-> resp.balances]
  ELSE [state |-> "failed", balances |-> <<>>]

\* getAllNonZeroBalances once every getBalances has settled: filter each chain,
\* then drop the chains left without a balance
GetAllNonZeroBalances(ids, results) ==
  LET all == [i \in DOMAIN ids |->
                [chainId |-> ids[i],
                 balances |-> FilterNonZeroBalances(results[i].balances, DUST_THRESHOLD)]]
  IN SelectSeq(all, LAMBDA cb : Len(cb.balances) > 0)

(***************************************************************************)
(* TokensAPI.getMultipleTokenInfo and getCustomTokenInfo                   *)
(***************************************************************************)
\* the custom token body: the upstream knows every queried address, or none
CustomResponses(q) ==
  Failures \cup {[status |-> "ok", known |-> k] :
                   k \in {{ToLowerCase(q[i]) : i \in DOMAIN q}, {}}}

\* getMultipleTokenInfo after getTokens returned tokens, in frame fr of pipeline i:
\* match the addresses against the list, then ask for the missing ones in one
\* custom lookup.  Object.values(undefined) throws.
GetMultipleTokenInfoResume(fr, i, tokens, cl, fl, t) ==
  IF ~tokens.defined /\ fr.addresses # <<>>
  THEN [cl |-> cl, flights |-> fl,
        frame |-> [fr EXCEPT !.info = "threw", !.tokens = EmptyTokenList]]
  ELSE LET found == {ToLowerCase(a) : a \in
                       {x \in Range(fr.addresses) :
                          \E tok \in tokens.tokens : ToLowerCase(tok) = ToLowerCase(x)}}
           missing == SelectSeq(fr.addresses, LAMBDA a : ToLowerCase(a) \notin found)
           settled == [fr EXCEPT !.info = "done", !.tokens = EmptyTokenList,
                                 !.tokenMap = found]
       IN IF missing = <<>>
          THEN [cl |-> cl, flights |-> fl, frame |-> settled]
          ELSE Where({
                 IF r.result = "dispatched"
                 THEN [cl |-> r,
                       flights |-> fl \cup {Flight("custom", i, fr.chainId, missing, t)},
                       frame |-> [settled EXCEPT !.info = "custom"]]
                 ELSE [cl |-> r, flights |-> fl, frame |-> settled]
                 : r \in {ClientRequest(initError, cl,
                                        CustomEndpoint(fr.chainId, missing), t)} })

\* getCustomTokenInfo(chainId, joined) after its await, as the addresses it adds to
\* tokenMap: response[joined.toLowerCase()] is a token only when one address was
\* joined and the upstream knows it
GetCustomTokenInfoSettle(resp, joined) ==
  IF resp.status = "ok" /\ Len(joined) = 1 /\ ToLowerCase(joined[1]) \in resp.known
  THEN {ToLowerCase(joined[1])}
  ELSE {}

(***************************************************************************)
(* PortfolioService.  Every token has 6 decimals and USD amounts are in    *)
(* units of 10^-6 USD, so valueUSD = balance * price exactly; allocation   *)
(* is in whole percent, rounded down.  PortfolioToken objects live in heap *)
(* and arrays hold references to them: <<i, k>> is the object made by      *)
(* pipeline i for the k-th entry of its balances.                          *)
(***************************************************************************)
TOP_LIMIT == 10
NATIVE_TOKEN == "0xeeee"

ValueUSD(balance, price) == balance * price
Allocation(valueUSD, totalValueUSD) ==
  IF totalValueUSD > 0 THEN (valueUSD * 100) \div totalValueUSD ELSE 0

RECURSIVE SumSeq(_)
SumSeq(s) == IF s = <<>> THEN 0 ELSE Head(s) + SumSeq(Tail(s))

RECURSIVE FlatMap(_)
FlatMap(ss) == IF ss = <<>> THEN <<>> ELSE Head(ss) \o FlatMap(Tail(ss))

\* tokens.sort((a, b) => b.valueUSD - a.valueUSD) over references into objects
SortByValue(refs, objects) == StableSort(refs, [r \in Range(refs) |-> 0 - objects[r].valueUSD])

NoToken == <<0, 0>>

\* processChainPortfolio making a holding of every priced balance, with or without
\* metadata
ProcessChainPortfolioPriced(i, fr) ==
  LET priced == SelectSeq([k \in DOMAIN fr.balances |-> k],
                          LAMBDA k : Has(fr.priceMap, ToLowerCase(fr.balances[k].address)))
      value == [k \in Range(priced) |->
                  ValueUSD(fr.balances[k].balance,
                           fr.priceMap[ToLowerCase(fr.balances[k].address)])]
      totalValueUSD == SumSeq([j \in DOMAIN priced |-> value[priced[j]]])
      objects == [r \in {<<i, k>> : k \in Range(priced)} |->
                    [address |-> fr.balances[r[2]].address,
                     chainId |-> fr.chainId,
                     balance |-> fr.balances[r[2]].balance,
                     priceUSD |-> fr.priceMap[ToLowerCase(fr.balances[r[2]].address)],
                     valueUSD |-> value[r[2]],
                     allocation |-> Allocation(value[r[2]], totalValueUSD)]]
      tokens == SortByValue([j \in DOMAIN priced |-> <<i, priced[j]>>], objects)
      natives == SelectSeq(tokens, LAMBDA r : ToLowerCase(objects[r].address) = NATIVE_TOKEN)
  IN [chain |-> [chainId |-> fr.chainId,
                 totalValueUSD |-> totalValueUSD,
                 tokens |-> tokens,
                 nativeToken |-> IF natives = <<>> THEN NoToken ELSE Head(natives)],
      objects |-> objects]

\* processChainPortfolio(chainId, balances) after its await, in pipeline i: the
\* ChainPortfolio and the PortfolioToken objects it allocates
ProcessChainPortfolio(i, fr) ==
  LET priced == SelectSeq([k \in DOMAIN fr.balances |-> k],
                          LAMBDA k : /\ ToLowerCase(fr.balances[k].address) \in fr.tokenMap
                                     /\ Has(fr.priceMap, ToLowerCase(fr.balances[k].address)))
      value == [k \in Range(priced) |->
                  ValueUSD(fr.balances[k].balance,
                           fr.priceMap[ToLowerCase(fr.balances[k].address)])]
      totalValueUSD == SumSeq([j \in DOMAIN priced |-> value[priced[j]]])
      objects == [r \in {<<i, k>> : k \in Range(priced)} |->
                    [address |-> fr.balances[r[2]].address,
                     chainId |-> fr.chainId,
                     balance |-> fr.balances[r[2]].balance,
                     priceUSD |-> fr.priceMap[ToLowerCase(fr.balances[r[2]].address)],
                     valueUSD |-> value[r[2]],
                     allocation |-> Allocation(value[r[2]], totalValueUSD)]]
      tokens == SortByValue([j \in DOMAIN priced |-> <<i, priced[j]>>], objects)
      natives == SelectSeq(tokens, LAMBDA r : ToLowerCase(objects[r].address) = NATIVE_TOKEN)
  IN [chain |-> [chainId |-> fr.chainId,
                 totalValueUSD |-> totalValueUSD,
                 tokens |-> tokens,
                 nativeToken |-> IF natives = <<>> THEN NoToken ELSE Head(natives)],
      objects |-> objects]

\* getTopTokens that slices allTokens without sorting them
GetTopTokensUnsorted(objects, allTokens, totalValue, limit) ==
  LET topTokens == SubSeq(allTokens, 1,
                          IF Len(allTokens) < limit THEN Len(allTokens) ELSE limit)
  IN [topTokens |-> topTokens,
      heap |-> [r \in DOMAIN objects |->
                  IF r \in Range(topTokens)
                  THEN [objects[r] EXCEPT !.allocation =
                          Allocation(objects[r].valueUSD, totalValue)]
                  ELSE objects[r]]]

\* getTopTokens(allTokens, totalValue, limit): the references it returns and the heap
\* after its forEach has assigned allocation through them
GetTopTokens(objects, allTokens, totalValue, limit) ==
  LET sorted == SortByValue(allTokens, objects)
      topTokens == SubSeq(sorted, 1, IF Len(sorted) < limit THEN Len(sorted) ELSE limit)
  IN [topTokens |-> topTokens,
      heap |-> [r \in DOMAIN objects |->
                  IF r \in Range(topTokens)
                  THEN [objects[r] EXCEPT !.allocation =
                          Allocation(objects[r].valueUSD, totalValue)]
                  ELSE objects[r]]]

\* chainPortfolios.reduce that leaves the first chain out
TotalValueOfRest(chains) ==
  SumSeq([i \in 1..(Len(chains) - 1) |-> chains[i + 1].totalValueUSD])

\* chainPortfolios.reduce((total, chain) => total + chain.totalValueUSD, 0)
TotalValue(chains) == SumSeq([i \in DOMAIN chains |-> chains[i].totalValueUSD])

\* the part of a getPortfolio call that its continuations work on
Call == [pc |-> pc, chainBalances |-> chainBalances, pipelines |-> pipelines,
         chainPortfolios |-> chainPortfolios, heap |-> heap, portfolio |-> portfolio]

SetCall(G) ==
  \E g \in {G} :
    /\ pc' = g.pc
    /\ chainBalances' = g.chainBalances
    /\ pipelines' = g.pipelines
    /\ chainPortfolios' = g.chainPortfolios
    /\ heap' = g.heap
    /\ portfolio' = g.portfolio

\* the synchronous prefix of processChainPortfolio for element cb of chainBalances:
\* getMultipleTokenInfo runs up to getTokens' await, then getTokenPrices sorts the
\* shared tokenAddresses array and runs up to its own await
ProcessChainStart(cb, i, cl, fl, t) ==
  LET tokenAddresses == [k \in DOMAIN cb.balances |-> cb.balances[k].address] IN
  Where({
    Where({
      [cl |-> p.cl, flights |-> p.flights,
       frame |-> [chainId |-> cb.chainId,
                  balances |-> cb.balances,
                  addresses |-> SortAddresses(tokenAddresses),
                  info |-> IF g.state = "pending" THEN "catalog" ELSE "ready",
                  tokens |-> g.value,
                  tokenMap |-> {},
                  prices |-> IF p.state = "pending" THEN "pending" ELSE "done",
                  priceMap |-> p.value]]
      : p \in {GetTokenPricesStart(g.cl, g.flights, cb.chainId, tokenAddresses, i, t)} })
    : g \in {GetTokensStart(cl, fl, cb.chainId, i, t)} })

RECURSIVE StartPipelines(_, _, _, _)
\* chainBalances.map(...): the synchronous prefixes, in order
StartPipelines(cbs, cl, fl, t) ==
  IF cbs = <<>> THEN [cl |-> cl, flights |-> fl, frames |-> <<>>]
  ELSE Where({
         Where({
           [cl |-> s.cl, flights |-> s.flights, frames |-> Append(before.frames, s.frame)]
           : s \in {ProcessChainStart(cbs[Len(cbs)], Len(cbs), before.cl,
                                      before.flights, t)} })
         : before \in {StartPipelines(SubSeq(cbs, 1, Len(cbs) - 1), cl, fl, t)} })

RECURSIVE ResumePipelines(_, _, _, _, _)
\* the microtasks that follow: getMultipleTokenInfo resumes, in order, in the first
\* n frames whose getTokens did not have to wait for the network
ResumePipelines(frames, n, cl, fl, t) ==
  IF n = 0 THEN [cl |-> cl, flights |-> fl, frames |-> frames]
  ELSE Where({
         IF before.frames[n].info # "ready" THEN before
         ELSE Where({
                [cl |-> a.cl, flights |-> a.flights,
                 frames |-> [before.frames EXCEPT ![n] = a.frame]]
                : a \in {GetMultipleTokenInfoResume(before.frames[n], n,
                                                    before.frames[n].tokens,
                                                    before.cl, before.flights, t)} })
         : before \in {ResumePipelines(frames, n - 1, cl, fl, t)} })

RECURSIVE BuildChains(_, _)
\* processChainPortfolio resumes in each of the first n pipelines whose two promises
\* are both fulfilled
BuildChains(G, n) ==
  IF n = 0 THEN G
  ELSE Where({
         IF /\ before.pipelines[n].info = "done"
            /\ before.pipelines[n].prices = "done"
            /\ ~Has(before.chainPortfolios, n)
         THEN Where({
                [before EXCEPT
                   !.chainPortfolios = Put(@, n, c.chain),
                   !.heap = [r \in (DOMAIN before.heap) \cup (DOMAIN c.objects) |->
                               IF r \in DOMAIN c.objects THEN c.objects[r]
                               ELSE before.heap[r]]]
                : c \in {ProcessChainPortfolio(n, before.pipelines[n])} })
         ELSE before
         : before \in {BuildChains(G, n - 1)} })

\* getPortfolio after Promise.all(chainPortfolios) is fulfilled
GetPortfolioReturn(G) ==
  LET chains == [i \in DOMAIN G.pipelines |-> G.chainPortfolios[i]]
      allTokens == FlatMap([i \in DOMAIN chains |-> chains[i].tokens])
  IN Where({
       Where({
         [G EXCEPT !.pc = "done",
                   !.heap = top.heap,
                   !.portfolio = [totalValueUSD |-> totalValueUSD,
                                  chains |-> chains,
                                  topTokens |-> top.topTokens]]
         : top \in {GetTopTokens(G.heap, allTokens, totalValueUSD, TOP_LIMIT)} })
       : totalValueUSD \in {TotalValue(chains)} })

\* what the settled promises set off: pipelines build their chains; Promise.all
\* rejects as soon as one pipeline has rejected and is fulfilled once all are
GetPortfolioResume(G) ==
  Where({
    IF B.pc # "pipelines" THEN B
    ELSE IF \E i \in DOMAIN B.pipelines : B.pipelines[i].info = "threw"
         THEN [B EXCEPT !.pc = "threw"]
         ELSE IF \A i \in DOMAIN B.pipelines : Has(B.chainPortfolios, i)
              THEN GetPortfolioReturn(B)
              ELSE B
    : B \in {BuildChains(G, Len(G.pipelines))} })

\* getPortfolio after getAllNonZeroBalances returned: every pipeline is started
GetPortfolioPipelines(ids, results, cl, fl, t) ==
  Where({
    Where({
      Where({
        [cl |-> m.cl, flights |-> m.flights,
         call |-> GetPortfolioResume([Call EXCEPT !.pc = "pipelines",
                                                  !.chainBalances = cbs,
                                                  !.pipelines = m.frames])]
        : m \in {ResumePipelines(s.frames, Len(s.frames), s.cl, s.flights, t)} })
      : s \in {StartPipelines(cbs, cl, fl, t)} })
    : cbs \in {GetAllNonZeroBalances(ids, results)} })

(***************************************************************************)
(* One getPortfolio call and the answers of the upstream                   *)
(***************************************************************************)
ChainIdLists == {<<1>>, <<1, 137>>, <<137, 1>>}

Settled(results) == \A i \in DOMAIN results : results[i].state # "pending"

\* getPortfolio(walletAddress, ids) is called
GetPortfolio(ids) ==
  /\ pc = "idle"
  /\ \E b \in {GetMultiChainBalancesStart(ids, Client, flights, now)} :
       /\ chainIds' = ids
       /\ balanceResults' = b.results
       /\ IF Settled(b.results)
          THEN \E p \in {GetPortfolioPipelines(ids, b.results, b.cl, b.flights, now)} :
                 /\ SetClient(p.cl)
                 /\ flights' = p.flights
                 /\ SetCall(p.call)
          ELSE /\ SetClient(b.cl)
               /\ flights' = b.flights
               /\ SetCall([Call EXCEPT !.pc = "balances"])
  /\ UNCHANGED <<stats, total, chatVars, now, initError, cacheVars, callerVars>>

\* the upstream answers a getBalances; the last answer resumes getPortfolio
BalancesArrive(f, resp) ==
  /\ f \in flights /\ f.kind = "balances"
  /\ \E results \in {[balanceResults EXCEPT ![f.owner] = GetBalancesSettle(resp)]} :
       /\ balanceResults' = results
       /\ IF Settled(results)
          THEN \E p \in {GetPortfolioPipelines(chainIds, results, Client,
                                                flights \ {f}, now)} :
                 /\ SetClient(p.cl)
                 /\ flights' = p.flights
                 /\ SetCall(p.call)
          ELSE /\ flights' = flights \ {f}
               /\ UNCHANGED <<rateLimitState, opened, issued, calls, last>>
               /\ SetCall(Call)
  /\ UNCHANGED <<stats, total, chatVars, now, initError, cacheVars, callerVars, chainIds>>

\* the upstream answers the getTokens of pipeline f.owner
PipelineTokensArrive(f, resp) ==
  /\ f \in flights /\ f.kind = "tokens" /\ f.owner > 0
  /\ \E r \in {TokensSettle(resp, f.chain, now)} :
     \E a \in {GetMultipleTokenInfoResume(pipelines[f.owner], f.owner, r.value,
                                          Client, flights \ {f}, now)} :
        /\ tokenCache' = r.cache
        /\ tokenTimestamps' = r.timestamps
        /\ SetClient(a.cl)
        /\ flights' = a.flights
        /\ SetCall(GetPortfolioResume([Call EXCEPT !.pipelines[f.owner] = a.frame]))
  /\ UNCHANGED <<stats, total, chatVars, now, initError, priceCache, priceTimestamps, callerVars,
                 chainIds, balanceResults>>

\* the upstream answers the getCustomTokenInfo of pipeline f.owner
PipelineCustomArrive(f, resp) ==
  /\ f \in flights /\ f.kind = "custom"
  /\ flights' = flights \ {f}
  /\ SetCall(GetPortfolioResume(
       [Call EXCEPT !.pipelines[f.owner] =
          [@ EXCEPT !.info = "done",
                    !.tokenMap = @ \cup GetCustomTokenInfoSettle(resp, f.q)]]))
  /\ UNCHANGED <<stats, total, chatVars, now, clientVars, cacheVars, callerVars, chainIds, balanceResults>>

\* the upstream answers the getTokenPrices of pipeline f.owner
PipelinePricesArrive(f, resp) ==
  /\ f \in flights /\ f.kind = "prices" /\ f.owner > 0
  /\ \E r \in {PricesSettle(resp, [chain |-> f.chain, q |-> f.q, currency |-> "USD"],
                              now)} :
        /\ priceCache' = r.cache
        /\ priceTimestamps' = r.timestamps
        /\ SetCall(GetPortfolioResume(
             [Call EXCEPT !.pipelines[f.owner] =
                [@ EXCEPT !.prices = "done", !.priceMap = r.value]]))
  /\ flights' = flights \ {f}
  /\ UNCHANGED <<stats, total, chatVars, now, clientVars, tokenCache, tokenTimestamps, callerVars,
                 chainIds, balanceResults>>

\* one call on cold caches.  No window sees a second request and no cache entry is
\* looked up twice, so nothing in the call depends on the instants at which the
\* answers arrive: the clock stands still.
NextPortfolio ==
  \/ \E ids \in ChainIdLists : GetPortfolio(ids)
  \/ \E f \in flights, resp \in BalancesResponses : BalancesArrive(f, resp)
  \/ \E f \in flights, resp \in TokensResponses : PipelineTokensArrive(f, resp)
  \/ \E f \in flights : \E resp \in CustomResponses(f.q) : PipelineCustomArrive(f, resp)
  \/ \E f \in flights : \E resp \in PricesResponses(f.q) : PipelinePricesArrive(f, resp)

SpecPortfolio == Init /\ [][NextPortfolio]_vars

\* fetch() is called without a signal and no timer is started anywhere: an
\* upstream call ends only when the upstream answers it
Answered ==
  \/ \E f \in flights, resp \in BalancesResponses : BalancesArrive(f, resp)
  \/ \E f \in flights, resp \in TokensResponses : PipelineTokensArrive(f, resp)
  \/ \E f \in flights : \E resp \in CustomResponses(f.q) : PipelineCustomArrive(f, resp)

\* one call whose balance, catalog and custom lookups are all answered in the end,
\* while the price endpoint may hang
SpecHung == Init /\ [][NextPortfolio]_vars /\ WF_vars(Answered)

(***************************************************************************)
(* Portfolio statistics: PortfolioService.getPortfolioStats and the two    *)
(* usePortfolioStats hooks.  A holding is its USD value, a whole number;   *)
(* quotients are kept exact, so a score is the rounding of an exact ratio. *)
(* A JavaScript number is [nan, value]: NaN compares false with anything.  *)
(***************************************************************************)
MaxHoldings == 4
HoldingLists == UNION {[1..n -> {0, 1, 2, 5}] : n \in 0..MaxHoldings}
Percents == 0..100

\* Math.round(p / q) for q > 0: halves round up
RoundRatio(p, q) == (2 * p + q) \div (2 * q)

SumOfSquares(s) == SumSeq([i \in DOMAIN s |-> s[i] * s[i]])

\* PortfolioService.calculateDiversificationScore(allocations), allocations in percent:
\* round((1 - sum((a / 100)^2)) * 100)
CalculateDiversificationScore(allocations) ==
  IF Len(allocations) = 0 THEN 0
  ELSE RoundRatio(10000 - SumOfSquares(allocations), 100)

\* calculateDiversificationScore(tokens) of hooks/usePortfolio.ts: with a total of 0
\* every allocation is 0 / 0 = NaN, and so are hhi and Math.round of it
HookDiversificationScore(tokens) ==
  IF Len(tokens) = 0 THEN Number(0)
  ELSE Where({
         IF totalValue = 0 THEN NaN
         ELSE Number(RoundRatio(100 * (totalValue * totalValue - SumOfSquares(tokens)),
                                totalValue * totalValue))
         : totalValue \in {SumSeq(tokens)} })

\* calculateDiversificationScore(tokens) of the multi-chain hook: a total of 0 scores 0
GuardedDiversificationScore(tokens) ==
  IF Len(tokens) = 0 THEN Number(0)
  ELSE IF SumSeq(tokens) = 0 THEN Number(0)
  ELSE HookDiversificationScore(tokens)

\* assessRisk with the second bound on the largest allocation inclusive (<= 60)
AssessRiskInclusive(diversificationScore, largestAllocation) ==
  IF diversificationScore >= 70 /\ largestAllocation < 40 THEN "Low"
  ELSE IF diversificationScore >= 50 \/ largestAllocation <= 60 THEN "Medium"
  ELSE "High"

\* PortfolioService.assessRisk(diversificationScore, largestAllocation)
AssessRisk(diversificationScore, largestAllocation) ==
  IF diversificationScore >= 70 /\ largestAllocation < 40 THEN "Low"
  ELSE IF diversificationScore >= 50 \/ largestAllocation < 60 THEN "Medium"
  ELSE "High"

\* the if-chain of the hooks' assessRisk on a score that may be NaN and on the
\* largest allocation largest / totalValue * 100, which is NaN when totalValue = 0
HookRiskLevel(score, largest, totalValue) ==
  LET atLeast(k) == ~score.nan /\ score.value >= k
      below(k) == totalValue # 0 /\ 100 * largest < k * totalValue
  IN IF atLeast(70) /\ below(40) THEN "Low"
     ELSE IF atLeast(50) \/ below(60) THEN "Medium"
     ELSE "High"

\* assessRisk(tokens) of hooks/usePortfolio.ts: the largest holding is taken to be
\* the first one
HookAssessRisk(tokens) ==
  HookRiskLevel(HookDiversificationScore(tokens),
                IF Len(tokens) > 0 THEN tokens[1] ELSE 0,
                IF Len(tokens) > 0 THEN SumSeq(tokens) ELSE 1)

Largest(tokens) == CHOOSE v \in Range(tokens) : \A w \in Range(tokens) : w <= v

\* assessRisk(tokens) of the multi-chain hook: High without value, else the largest
\* holding after sorting
GuardedAssessRisk(tokens) ==
  IF Len(tokens) = 0 THEN "High"
  ELSE IF SumSeq(tokens) = 0 THEN "High"
  ELSE HookRiskLevel(GuardedDiversificationScore(tokens), Largest(tokens), SumSeq(tokens))

\* getPortfolioStats(portfolio) for a Portfolio that holds the given values: topTokens
\* is sorted by value and carries allocations in whole percent of the portfolio total
GetPortfolioStats(tokens) ==
  /\ \E sorted \in {StableSort(tokens, [v \in Range(tokens) |-> 0 - v])} :
     \E allocations \in {[i \in DOMAIN sorted |->
                            Allocation(sorted[i], SumSeq(sorted))]} :
     \E score \in {CalculateDiversificationScore(allocations)} :
     \E largest \in {IF Len(allocations) > 0 THEN allocations[1] ELSE 0} :
       stats' = [op |-> "service", tokens |-> sorted, allocations |-> allocations,
                 score |-> Number(score), largest |-> largest,
                 risk |-> AssessRisk(score, largest)]
  /\ UNCHANGED <<total, chatVars, now, clientVars, cacheVars, flights, callerVars, portfolioVars>>

\* usePortfolioStats of hooks/usePortfolio.ts on portfolio.tokens
UsePortfolioStats(tokens) ==
  /\ stats' = [op |-> "hook", tokens |-> tokens, allocations |-> <<>>,
               score |-> HookDiversificationScore(tokens),
               largest |-> IF Len(tokens) > 0 THEN tokens[1] ELSE 0,
               risk |-> HookAssessRisk(tokens)]
  /\ UNCHANGED <<total, chatVars, now, clientVars, cacheVars, flights, callerVars, portfolioVars>>

\* usePortfolioStats of the multi-chain hook on the tokens of all chains
UseMultiChainStats(tokens) ==
  /\ stats' = [op |-> "guarded", tokens |-> tokens, allocations |-> <<>>,
               score |-> GuardedDiversificationScore(tokens),
               largest |-> IF Len(tokens) > 0 THEN Largest(tokens) ELSE 0,
               risk |-> GuardedAssessRisk(tokens)]
  /\ UNCHANGED <<total, chatVars, now, clientVars, cacheVars, flights, callerVars, portfolioVars>>

\* assessRisk(score, largest) on its own
CallAssessRisk(score, largest) ==
  /\ stats' = [op |-> "risk", tokens |-> <<>>, allocations |-> <<>>,
               score |-> Number(score), largest |-> largest,
               risk |-> AssessRisk(score, largest)]
  /\ UNCHANGED <<total, chatVars, now, clientVars, cacheVars, flights, callerVars, portfolioVars>>

\* one statistics call per behaviour: the functions are pure
NextStats ==
  \/ stats.op = "none" /\ \E tokens \in HoldingLists : GetPortfolioStats(tokens)
  \/ stats.op = "none" /\ \E tokens \in HoldingLists : UsePortfolioStats(tokens)
  \/ stats.op = "none" /\ \E tokens \in HoldingLists : UseMultiChainStats(tokens)
  \/ stats.op = "none" /\ \E score \in Percents, largest \in Percents :
                             CallAssessRisk(score, largest)

SpecStats == Init /\ [][NextStats]_vars

(***************************************************************************)
(* ChatWebSocketClient and the useChat hook.  The model keeps the client   *)
(* the hook created last: a client the hook has replaced was disconnected  *)
(* before, its socket has no handlers and its timers find                  *)
(* isIntentionalDisconnect set, so nothing it does changes any state.      *)
(***************************************************************************)
MAX_RECONNECT_ATTEMPTS == 5
RECONNECT_DELAY == 1000
MAX_DELAY == 10000
MaxMessages == 2
ChatAddresses == {"", "0x1", "0x2"}
Contents == {"hello"}

Min(x, y) == IF x < y THEN x ELSE y

\* disconnect(): the handlers are taken off the socket before it is closed
ClientDisconnect(c) ==
  [c EXCEPT !.isIntentionalDisconnect = TRUE,
            !.reconnectAttempts = 0,
            !.connectionTimeout = FALSE,
            !.ws = "null"]

\* connect(): a socket left from before, open or closed, is disconnected first
ClientConnect(c) ==
  [(IF c.ws # "null" THEN ClientDisconnect(c) ELSE c)
     EXCEPT !.isIntentionalDisconnect = FALSE,
            !.ws = "connecting",
            !.connectionTimeout = TRUE]

\* ws.onopen, before the hook's callback
ClientOnOpen(c) ==
  [c EXCEPT !.ws = "open", !.connectionTimeout = FALSE, !.reconnectAttempts = 0,
            !.streak = 0]

\* ws.onclose, after the hook's callback: a reconnect timer is set or not
ClientOnClose(c) ==
  IF ~c.isIntentionalDisconnect /\ c.reconnectAttempts < MAX_RECONNECT_ATTEMPTS
  THEN [c EXCEPT !.ws = "closed", !.connectionTimeout = FALSE,
                 !.reconnectAttempts = @ + 1,
                 !.timers = @ + 1,
                 !.delay = Min(RECONNECT_DELAY * (c.reconnectAttempts + 1), MAX_DELAY)]
  ELSE [c EXCEPT !.ws = "closed", !.connectionTimeout = FALSE]

\* the callback of a reconnect timer
ClientOnTimer(c) ==
  IF ~c.isIntentionalDisconnect
  THEN [ClientConnect(c) EXCEPT !.timers = @ - 1, !.streak = @ + 1]
  ELSE [c EXCEPT !.timers = @ - 1]

\* the effect of useChat, run with the address of this render
UseEffect(h, c, address) ==
  IF address = ""
  THEN [hook |-> [h EXCEPT !.address = address, !.current = FALSE],
        client |-> IF h.current THEN ClientDisconnect(c) ELSE c]
  ELSE IF ~h.current \/ c.clientId # address
  THEN [hook |-> [h EXCEPT !.address = address, !.current = TRUE],
        client |-> ClientConnect(NewClient(address))]
  ELSE [hook |-> [h EXCEPT !.address = address], client |-> c]

\* a setState of the hook: React drops it once the component is unmounted
SetState(h, next) == IF h.mounted = "mounted" THEN next ELSE h

\* the component is rendered for the first time
Mount(address) ==
  /\ chatHook.mounted = "no"
  /\ \E e \in {UseEffect([chatHook EXCEPT !.mounted = "mounted"], chatClient, address)} :
       /\ chatHook' = e.hook
       /\ chatClient' = e.client
  /\ UNCHANGED <<stats, total, now, clientVars, cacheVars, flights, callerVars, portfolioVars>>

\* useAccount gives another address: the component renders again and the effect runs
AddressChanges(address) ==
  /\ chatHook.mounted = "mounted"
  /\ address # chatHook.address
  /\ \E e \in {UseEffect(chatHook, chatClient, address)} :
       /\ chatHook' = e.hook
       /\ chatClient' = e.client
  /\ UNCHANGED <<stats, total, now, clientVars, cacheVars, flights, callerVars, portfolioVars>>

\* the component is unmounted: the cleanup of the effect runs, and it is empty
Unmount ==
  /\ chatHook.mounted = "mounted"
  /\ chatHook' = [chatHook EXCEPT !.mounted = "unmounted"]
  /\ UNCHANGED <<stats, total, chatClient, now, clientVars, cacheVars, flights, callerVars,
                 portfolioVars>>

\* wsClient.current?.isConnected()
IsConnected == chatHook.current /\ chatClient.ws = "open"

\* sendMessage without the isConnected check of useChat.ts:76-79
SendMessageUnchecked(content) ==
  /\ chatHook.mounted = "mounted"
  /\ chatHook.asked < MaxMessages
  /\ chatHook' = [chatHook EXCEPT
                    !.asked = @ + 1,
                    !.messages = Append(@, [role |-> "user", content |-> content]),
                    !.isTyping = TRUE]
  /\ chatClient' = [chatClient EXCEPT !.sent = @ + 1, !.content = content]
  /\ UNCHANGED <<stats, total, now, clientVars, cacheVars, flights, callerVars, portfolioVars>>

\* the component calls sendMessage(content); asked counts the calls
SendMessage(content) ==
  /\ chatHook.mounted = "mounted"
  /\ chatHook.asked < MaxMessages
  /\ IF ~IsConnected
     THEN /\ chatHook' = [chatHook EXCEPT !.asked = @ + 1]
          /\ UNCHANGED chatClient
     ELSE /\ chatHook' = [chatHook EXCEPT
                            !.asked = @ + 1,
                            !.messages = Append(@, [role |-> "user", content |-> content]),
                            !.isTyping = TRUE]
          /\ chatClient' = [chatClient EXCEPT !.sent = @ + 1, !.content = content]
  /\ UNCHANGED <<stats, total, now, clientVars, cacheVars, flights, callerVars, portfolioVars>>

\* the component calls clearMessages()
ClearMessages ==
  /\ chatHook.mounted = "mounted"
  /\ chatHook.messages # <<>>
  /\ chatHook' = [chatHook EXCEPT !.messages = <<>>]
  /\ UNCHANGED <<stats, total, chatClient, now, clientVars, cacheVars, flights, callerVars,
                 portfolioVars>>

\* the socket is opened: ws.onopen, then the hook's onOpen callback
SocketOpens ==
  /\ chatClient.ws = "connecting"
  /\ chatClient' = ClientOnOpen(chatClient)
  /\ chatHook' = SetState(chatHook, [chatHook EXCEPT !.isConnected = TRUE,
                                                      !.isTyping = FALSE])
  /\ UNCHANGED <<stats, total, now, clientVars, cacheVars, flights, callerVars, portfolioVars>>

\* the socket is closed by the other side, by a failure or by the connection
\* timeout: the hook's onClose callback, then the rest of ws.onclose
SocketCloses ==
  /\ chatClient.ws \in {"connecting", "open", "closing"}
  /\ chatClient.streak < MAX_RECONNECT_ATTEMPTS + MaxOverflow
  /\ chatClient' = ClientOnClose(chatClient)
  /\ chatHook' = SetState(chatHook, [chatHook EXCEPT !.isConnected = FALSE])
  /\ UNCHANGED <<stats, total, now, clientVars, cacheVars, flights, callerVars, portfolioVars>>

\* the socket reports an error: ws.onerror and the hook's onError callback
SocketError ==
  /\ chatClient.ws \in {"connecting", "open", "closing"}
  /\ chatHook' = SetState(chatHook, [chatHook EXCEPT !.isConnected = FALSE])
  /\ UNCHANGED <<stats, total, chatClient, now, clientVars, cacheVars, flights, callerVars,
                 portfolioVars>>

\* the connection timeout fires: a socket still connecting is closed
ConnectionTimeout ==
  /\ chatClient.connectionTimeout
  /\ chatClient' = [chatClient EXCEPT
                      !.connectionTimeout = FALSE,
                      !.ws = IF @ = "connecting" THEN "closing" ELSE @]
  /\ UNCHANGED <<stats, total, chatHook, now, clientVars, cacheVars, flights, callerVars,
                 portfolioVars>>

\* a reconnect timer fires
ReconnectTimer ==
  /\ chatClient.timers > 0
  /\ chatClient' = ClientOnTimer(chatClient)
  /\ UNCHANGED <<stats, total, chatHook, now, clientVars, cacheVars, flights, callerVars,
                 portfolioVars>>

\* a message of the given type arrives: ws.onmessage, then the hook's callback
MessageArrives(type) ==
  /\ chatClient.ws = "open"
  /\ chatHook.mounted = "mounted"
  /\ type = "ai_response" => Len(chatHook.messages) < 2 * MaxMessages
  /\ chatHook' =
       CASE type = "ai_response" ->
              [chatHook EXCEPT !.isTyping = FALSE,
                               !.messages = Append(@, [role |-> "assistant",
                                                       content |-> "answer"])]
         [] type = "typing" -> [chatHook EXCEPT !.isTyping = TRUE]
         [] OTHER -> chatHook
  /\ UNCHANGED <<stats, total, chatClient, now, clientVars, cacheVars, flights, callerVars,
                 portfolioVars>>

NextChat ==
  \/ \E a \in ChatAddresses : Mount(a)
  \/ \E a \in ChatAddresses : AddressChanges(a)
  \/ Unmount
  \/ \E content \in Contents : SendMessage(content)
  \/ ClearMessages
  \/ SocketOpens
  \/ SocketCloses
  \/ SocketError
  \/ ConnectionTimeout
  \/ ReconnectTimer
  \/ \E type \in {"ai_response", "typing", "error"} : MessageArrives(type)

SpecChat == Init /\ [][NextChat]_vars

(***************************************************************************)
(* Rate limiter claims                                                     *)
(***************************************************************************)
\* C1 (as stated): from no window, or once RATE_LIMIT_WINDOW has elapsed since the
\* window was opened, a request passes and reinitialises the window to count 1 and
\* reset time now + RATE_LIMIT_WINDOW; before that the first 30 requests pass and
\* the 31st is rejected.
C1_AsStated ==
  [][\A e \in RateEndpoints :
       (Request(e) /\ ~initError) =>
         LET hadWindow == Has(rateLimitState, e)
             elapsed == now - Get(opened, e, 0)
         IN /\ (~hadWindow \/ elapsed >= RATE_LIMIT_WINDOW) =>
                 /\ last'.result = "dispatched"
                 /\ rateLimitState'[e] =
                      [requests |-> 1, resetTime |-> now + RATE_LIMIT_WINDOW]
            /\ (hadWindow /\ elapsed < RATE_LIMIT_WINDOW
                  /\ Get(issued, e, 0) < MAX_REQUESTS_PER_MINUTE) =>
                 last'.result = "dispatched"
            /\ (hadWindow /\ elapsed < RATE_LIMIT_WINDOW
                  /\ Get(issued, e, 0) >= MAX_REQUESTS_PER_MINUTE) =>
                 last'.result = "rate_limited"]_vars

\* C1 (amended): the window lasts up to and including its reset time.  From no
\* window, or strictly more than RATE_LIMIT_WINDOW after the window was opened, a
\* request passes and reinitialises the window to count 1 and reset time
\* now + RATE_LIMIT_WINDOW; within the window the first 30 requests pass and the
\* 31st and later ones are rejected.
C1_RateLimitBoundary ==
  [][\A e \in RateEndpoints :
       (Request(e) /\ ~initError) =>
         LET hadWindow == Has(rateLimitState, e)
             elapsed == now - Get(opened, e, 0)
         IN /\ (~hadWindow \/ elapsed > RATE_LIMIT_WINDOW) =>
                 /\ last'.result = "dispatched"
                 /\ rateLimitState'[e] =
                      [requests |-> 1, resetTime |-> now + RATE_LIMIT_WINDOW]
            /\ (hadWindow /\ elapsed <= RATE_LIMIT_WINDOW
                  /\ Get(issued, e, 0) < MAX_REQUESTS_PER_MINUTE) =>
                 /\ last'.result = "dispatched"
                 /\ rateLimitState'[e].resetTime = rateLimitState[e].resetTime
            /\ (hadWindow /\ elapsed <= RATE_LIMIT_WINDOW
                  /\ Get(issued, e, 0) >= MAX_REQUESTS_PER_MINUTE) =>
                 last'.result = "rate_limited"]_vars

\* the 31st request of a window that was opened after an earlier one expired is rejected
C1_Witness ==
  \E e \in RateEndpoints :
    /\ last = [endpoint |-> e, result |-> "rate_limited"]
    /\ Get(issued, e, 0) = MAX_REQUESTS_PER_MINUTE + 1
    /\ Get(opened, e, 0) > 1

\* C2: a request rejected by the rate limiter dispatches no network call and
\* leaves the window of every endpoint key unchanged.
C2_RejectionHasNoEffect ==
  [][\A e \in RateEndpoints :
       (Request(e) /\ last'.result = "rate_limited") =>
         /\ rateLimitState' = rateLimitState
         /\ calls' = calls]_vars

\* a request was rejected while the other endpoint key has an open window
C2_Witness ==
  \E e \in RateEndpoints :
    /\ last = [endpoint |-> e, result |-> "rate_limited"]
    /\ \E f \in RateEndpoints \ {e} : Has(rateLimitState, f)

(***************************************************************************)
(* Cache claims                                                            *)
(***************************************************************************)
PriceKeyOf(f) == [chain |-> f.chain, q |-> f.q, currency |-> "USD"]

\* a step that may be a stand-alone lookup through the given API
LookedUp(api) == lookup'.api = api /\ now' = now /\ UNCHANGED cacheVars

TokensFailed(f, resp) ==
  resp \in Failures /\ f.kind = "tokens" /\ f \notin flights' /\ TokensArrive(f, resp)
PricesFailed(f, resp) ==
  resp \in Failures /\ f.kind = "prices" /\ f \notin flights' /\ PricesArrive(f, resp)

\* C4 (as stated): when the fetch behind a lookup fails the cache is untouched and
\* the next lookup of the key fetches again (the key is not valid after the failure).
C4_AsStated ==
  [][\A f \in flights, resp \in Failures :
       /\ TokensFailed(f, resp) =>
            /\ UNCHANGED cacheVars
            /\ ~TokensIsCacheValid(tokenTimestamps', f.chain, now')
       /\ PricesFailed(f, resp) =>
            /\ UNCHANGED cacheVars
            /\ ~PricesIsCacheValid(priceTimestamps', PriceKeyOf(f), now')]_vars

\* C4 (amended): when the fetch behind a lookup fails the cache is untouched (no
\* entry, timestamp or failure marker is written), so the next lookup of the key
\* fetches again unless an overlapping lookup of the same key stored an entry
\* after the failing lookup began.
C4_FailureLeavesCache ==
  [][/\ \A f \in flights, resp \in Failures :
          /\ TokensFailed(f, resp) =>
               /\ UNCHANGED cacheVars
               /\ TokensIsCacheValid(tokenTimestamps', f.chain, now') =>
                    tokenTimestamps[f.chain] >= f.started
          /\ PricesFailed(f, resp) =>
               /\ UNCHANGED cacheVars
               /\ PricesIsCacheValid(priceTimestamps', PriceKeyOf(f), now') =>
                    priceTimestamps[PriceKeyOf(f)] >= f.started
     /\ \A c \in CacheChains :
          (LookedUp("tokens") /\ lookup'.state = "failed" /\ CallGetTokens(c)) =>
            /\ UNCHANGED cacheVars
            /\ ~TokensIsCacheValid(tokenTimestamps', c, now')
     /\ \A c \in CacheChains, l \in AddressLists :
          (LookedUp("prices") /\ lookup'.state = "failed"
             /\ CallGetTokenPrices(c, l)) =>
            /\ UNCHANGED cacheVars
            /\ ~PricesIsCacheValid(priceTimestamps', PriceCacheKey(c, l), now')]_vars

\* an expired token catalog entry is still stored, unchanged, while a refresh of it
\* is being awaited or has failed
C4_Witness ==
  /\ lookup.api = "tokens" /\ lookup.state \in {"pending", "failed"}
  /\ Has(tokenCache, lookup.chain)
  /\ ~TokensIsCacheValid(tokenTimestamps, lookup.chain, now)
  /\ \A f \in flights : f.kind # "tokens"

(***************************************************************************)
(* Portfolio claims                                                        *)
(***************************************************************************)
\* getPortfolio has got past getAllNonZeroBalances
BalancesKnown == pc \in {"pipelines", "done", "threw"}

\* the requested chains whose balance fetch succeeded, in the requested order
FetchedChains ==
  LET ok == SelectSeq([i \in DOMAIN chainIds |-> i],
                      LAMBDA i : balanceResults[i].state = "ok")
  IN [j \in DOMAIN ok |-> chainIds[ok[j]]]

\* the holdings listed in the chains of the returned Portfolio
ChainTokens == UNION {Range(portfolio.chains[i].tokens) : i \in DOMAIN portfolio.chains}

\* C5 (as stated): when the balance fetch of some requested chains fails and every
\* other chain returns at least one balance above the dust threshold, getPortfolio
\* does not throw, and the Portfolio it returns holds exactly the chains whose
\* balance fetch succeeded.
C5_AsStated ==
  (/\ BalancesKnown
   /\ \E i \in DOMAIN chainIds : balanceResults[i].state = "failed"
   /\ \A i \in DOMAIN chainIds :
        balanceResults[i].state = "ok" =>
          \E e \in Range(balanceResults[i].balances) : e.balance > DUST_THRESHOLD)
  => /\ pc # "threw"
     /\ pc = "done" =>
          [i \in DOMAIN portfolio.chains |-> portfolio.chains[i].chainId] = FetchedChains

\* C6 (as stated): getPortfolio never throws, whichever balance, metadata or price
\* fetches fail and whichever pipeline rejects; when every chain fails it returns the
\* empty Portfolio, total 0 and no chains.
C6_AsStated ==
  /\ pc # "threw"
  /\ (pc = "done" /\ \A i \in DOMAIN chainIds : balanceResults[i].state = "failed")
       => portfolio.totalValueUSD = 0 /\ portfolio.chains = <<>>

\* C7: in every returned Portfolio the total is the sum of the chains' totals, and
\* each chain's total is the sum of the values of exactly the holdings listed for it.
C7_TotalsAreSums ==
  pc = "done" =>
    /\ portfolio.totalValueUSD =
         SumSeq([i \in DOMAIN portfolio.chains |-> portfolio.chains[i].totalValueUSD])
    /\ \A i \in DOMAIN portfolio.chains :
         portfolio.chains[i].totalValueUSD =
           SumSeq([k \in DOMAIN portfolio.chains[i].tokens |->
                     heap[portfolio.chains[i].tokens[k]].valueUSD])

\* a Portfolio of two chains, both worth something, one of which lost a balance for
\* want of a price or of metadata
C7_Witness ==
  /\ pc = "done"
  /\ Len(portfolio.chains) = 2
  /\ \A i \in 1..2 : portfolio.chains[i].totalValueUSD > 0
  /\ \E i \in 1..2 : /\ portfolio.chains[i].tokens # <<>>
                     /\ Len(portfolio.chains[i].tokens) < Len(chainBalances[i].balances)

\* C8 (as stated): in every returned Portfolio worth more than 0, every holding of
\* every chain carries the allocation of its value in the portfolio total, so the
\* allocations of all holdings add up to 100 but for the rounding of each.
C8_AsStated ==
  (pc = "done" /\ portfolio.totalValueUSD > 0) =>
    /\ \A r \in ChainTokens :
         heap[r].allocation = (heap[r].valueUSD * 100) \div portfolio.totalValueUSD
    /\ LET allTokens == FlatMap([i \in DOMAIN portfolio.chains |->
                                   portfolio.chains[i].tokens])
           sum == SumSeq([k \in DOMAIN allTokens |-> heap[allTokens[k]].allocation])
       IN 100 - Len(allTokens) < sum /\ sum <= 100

\* C9 (as stated): the step in which getTopTokens assigns allocation to the entries
\* of topTokens and getPortfolio returns changes no field of a holding stored in a
\* chain.
C9_AsStated ==
  [][(pc # "done" /\ pc' = "done") => \A r \in DOMAIN heap : heap'[r] = heap[r]]_vars

\* C10: getAllNonZeroBalances keeps a balance if and only if it is strictly above
\* the dust threshold (0, 500000 and 1000000 are dropped, 1000001 is kept), and a
\* chain left without a balance is not in its output.
C10_DustFilter ==
  BalancesKnown =>
    /\ \A j \in DOMAIN chainBalances :
         /\ chainBalances[j].balances # <<>>
         /\ \A e \in Range(chainBalances[j].balances) :
              /\ e.balance > 1000000
              /\ \E i \in DOMAIN chainIds :
                   /\ chainIds[i] = chainBalances[j].chainId
                   /\ e \in Range(balanceResults[i].balances)
    /\ \A i \in DOMAIN chainIds : \A e \in Range(balanceResults[i].balances) :
         e.balance >= 1000001 =>
           \E j \in DOMAIN chainBalances :
             /\ chainBalances[j].chainId = chainIds[i]
             /\ e \in Range(chainBalances[j].balances)

\* one chain answered 0, 500000 and 1000000 and is dropped; the other answered
\* 1000000 and 1000001 and keeps the latter only
C10_Witness ==
  /\ BalancesKnown
  /\ \E i, k \in DOMAIN chainIds :
       /\ balanceResults[i].balances = BalancesDust
       /\ balanceResults[k].balances = BalancesEdge
       /\ Len(chainBalances) = 1
       /\ chainBalances[1].chainId = chainIds[k]
       /\ Entry("0xb", 1000001) \in Range(chainBalances[1].balances)
       /\ Entry("0xc", 1000000) \notin Range(chainBalances[1].balances)

(***************************************************************************)
(* Statistics claims                                                       *)
(***************************************************************************)
\* C11 (as stated): the diversification score of every holding set is a number
\* between 0 and 100, also when the holdings are worth 0 in total; it is 0 for the
\* empty set and for a single holding at 100%, and 75 for four equal holdings.
C11_AsStated ==
  stats.op \in {"service", "hook", "guarded"} =>
    /\ ~stats.score.nan
    /\ 0 <= stats.score.value /\ stats.score.value <= 100
    /\ Len(stats.tokens) = 0 => stats.score.value = 0
    /\ (Len(stats.tokens) = 1 /\ stats.tokens[1] > 0) => stats.score.value = 0
    /\ (Len(stats.tokens) = 4 /\ stats.tokens[1] > 0
          /\ \A i \in 1..4 : stats.tokens[i] = stats.tokens[1]) => stats.score.value = 75

\* C12: the risk level is Low exactly when score >= 70 and largest < 40, otherwise
\* Medium exactly when score >= 50 or largest < 60, otherwise High; score 48 with
\* largest 60 is High and with largest 59 is Medium.  The largest allocation is the
\* ratio num / den in percent.
C12_RiskLevel ==
  LET s == stats.score.value
      num == 100 * stats.largest
      den == IF stats.op = "guarded" THEN SumSeq(stats.tokens) ELSE 100
      low == s >= 70 /\ num < 40 * den
      medium == ~low /\ (s >= 50 \/ num < 60 * den)
  IN (stats.op \in {"risk", "service"} \/ (stats.op = "guarded" /\ den > 0)) =>
       /\ stats.risk = "Low" <=> low
       /\ stats.risk = "Medium" <=> medium
       /\ stats.risk = "High" <=> (~low /\ ~medium)
       /\ (s = 48 /\ num = 60 * den) => stats.risk = "High"
       /\ (s = 48 /\ num = 59 * den) => stats.risk = "Medium"

\* assessRisk(48, 60) has returned High
C12_Witness ==
  /\ stats.op = "risk"
  /\ stats.score.value = 48 /\ stats.largest = 60
  /\ stats.risk = "High"

\* C13: in every ChainPortfolio a holding exists for an address exactly when the
\* address has a non-dust balance on the chain and both its metadata and its price
\* were resolved; the other addresses yield no holding, and each holding is valued
\* at its own balance times its own price.
C13_HoldingIffResolved ==
  \A i \in DOMAIN chainPortfolios :
    LET entries == chainBalances[i].balances
        resolved == {k \in DOMAIN entries :
                       /\ ToLowerCase(entries[k].address) \in pipelines[i].tokenMap
                       /\ ToLowerCase(entries[k].address) \in DOMAIN pipelines[i].priceMap}
        tokens == chainPortfolios[i].tokens
    IN /\ Range(tokens) = {<<i, k>> : k \in resolved}
       /\ Len(tokens) = Cardinality(resolved)
       /\ \A k \in resolved :
            /\ entries[k].balance > DUST_THRESHOLD
            /\ heap[<<i, k>>].address = entries[k].address
            /\ heap[<<i, k>>].balance = entries[k].balance
            /\ heap[<<i, k>>].valueUSD =
                 entries[k].balance * pipelines[i].priceMap[ToLowerCase(entries[k].address)]

\* a returned chain with six balances: one lacks metadata, another a price, and the
\* four others are its holdings
C13_Witness ==
  /\ pc = "done"
  /\ \E i \in DOMAIN portfolio.chains :
       /\ Len(chainBalances[i].balances) = 6
       /\ "0xb" \notin pipelines[i].tokenMap
       /\ "0xa" \notin DOMAIN pipelines[i].priceMap
       /\ Len(portfolio.chains[i].tokens) = 4

\* C14 (as stated): getMultipleTokenInfo returns metadata for every requested address
\* that the bulk catalog lists (compared without case) or that the custom token
\* lookup knows, however many addresses the catalog lacks, and the custom lookup
\* leaves the catalog cache as it was.
C14_AsStated ==
  [][/\ \A f \in flights : \A resp \in CustomResponses(f.q) :
          (f.kind = "custom" /\ f \notin flights' /\ PipelineCustomArrive(f, resp)) =>
            /\ UNCHANGED <<tokenCache, tokenTimestamps>>
            /\ \A a \in Range(pipelines[f.owner].addresses) :
                 (\/ ToLowerCase(a) \in pipelines[f.owner].tokenMap
                  \/ resp.status = "ok" /\ ToLowerCase(a) \in resp.known)
                   => ToLowerCase(a) \in pipelines'[f.owner].tokenMap
     /\ \A f \in flights : \A resp \in TokensResponses :
          (f.kind = "tokens" /\ f.owner > 0 /\ f \notin flights'
             /\ resp.status = "ok" /\ resp.tokens.defined
             /\ PipelineTokensArrive(f, resp)) =>
            \A a \in Range(pipelines[f.owner].addresses) :
              (\E tok \in resp.tokens.tokens : ToLowerCase(tok) = ToLowerCase(a))
                => ToLowerCase(a) \in pipelines'[f.owner].tokenMap]_vars

(***************************************************************************)
(* Claims about the lookups' failures                                      *)
(***************************************************************************)
\* C15: a lookup whose fetch failed, by a rate-limit rejection, an upstream error,
\* a network error or an unavailable client, throws nothing: getTokens returns the
\* empty map, getTokenPrices the empty map and getTokenPrice null.
C15_FailuresAreSwallowed ==
  /\ ~returned.threw
  /\ returned.cause \in {"init_error", "rate_limited", "http_error", "network_error"} =>
       /\ returned.api = "tokens" => returned.tokens = EmptyTokenList
       /\ returned.api = "prices" => returned.prices = EmptyMap
       /\ returned.api = "price" => returned.price = Null

\* getTokenPrice was rejected by the rate limiter and returned null
C15_Witness ==
  /\ returned.api = "price"
  /\ returned.cause = "rate_limited"
  /\ returned.price = Null
  /\ ~returned.threw

\* the same addresses, each as many times, in any order
Permutation(s, t) ==
  /\ Len(s) = Len(t)
  /\ \A a \in Range(s) \cup Range(t) :
       Cardinality({i \in DOMAIN s : s[i] = a}) = Cardinality({i \in DOMAIN t : t[i] = a})

\* C16: the price cache key does not depend on the order of the addresses: a
\* getTokenPrices call whose addresses are, in any order, those of an entry stored
\* less than the TTL ago returns that entry and performs no fetch.
C16_KeyIgnoresOrder ==
  [][\A stored \in DOMAIN priceTimestamps : \A l \in AddressLists :
         (/\ returned'.api = "prices"
          /\ returned'.args = l
          /\ Permutation(stored.q, l)
          /\ priceTimestamps[stored] # 0
          /\ now - priceTimestamps[stored] < PRICE_CACHE_DURATION
          /\ \E resp \in PricesResponses(l) : LookupPrices(stored.chain, l, resp))
           => /\ returned'.cause = "hit"
              /\ returned'.prices = priceCache[stored]
              /\ fetchCount' = fetchCount
              /\ calls' = calls
              /\ issued' = issued
              /\ UNCHANGED cacheVars]_vars

\* getTokenPrices(["0xb", "0xa"]) right after getTokenPrices(["0xa", "0xb"]) was
\* served from the cache
C16_Witness ==
  /\ returned.api = "prices"
  /\ returned.before = <<"0xa", "0xb">>
  /\ returned.args = <<"0xb", "0xa">>
  /\ returned.cause = "hit"
  /\ fetchCount = 1

(***************************************************************************)
(* Claims about the client's errors                                        *)
(***************************************************************************)
\* C17: with no API key configured the client fails at construction, so no request
\* is ever rejected at request time for the missing key.
C17_AsStated == outcome.error.message # "not configured"

\* why the request failed
Failure(o) ==
  CASE o.result = "rate_limited" -> "rate limit"
    [] o.result = "init_error" -> "not configured"
    [] o.answer.kind = "exception" -> "network"
    [] o.answer.kind = "response" /\ ~Ok(o.answer.status) -> "upstream"
    [] OTHER -> "malformed body"

\* C18: every failure of request() is a rate-limit rejection before dispatch, an
\* upstream error with the status code of the non-2xx response or a network error
\* for a transport-level exception, and the error tells which: a non-2xx response
\* is never reported as a network error and a transport exception carries no
\* status code.
C18_AsStated ==
  outcome.error.thrown =>
    /\ Failure(outcome) \in {"rate limit", "upstream", "network"}
    /\ Failure(outcome) =
         (CASE outcome.error.statusCode.defined /\ outcome.error.response = "undefined" ->
                 "rate limit"
            [] outcome.error.statusCode.defined -> "upstream"
            [] OTHER -> "network")
    /\ Failure(outcome) = "rate limit" => outcome.result = "rate_limited"
    /\ Failure(outcome) = "upstream" =>
         outcome.error.statusCode = Defined(outcome.answer.status)
    /\ Failure(outcome) = "network" => ~outcome.error.statusCode.defined

(***************************************************************************)
(* Claims about termination                                                *)
(***************************************************************************)
\* C19: an upstream call that never answers is given up after a finite timeout, so
\* every getPortfolio call returns in the end.
C19_AsStated == (pc \in {"balances", "pipelines"}) ~> (pc \in {"done", "threw"})

(***************************************************************************)
(* Claims about the native token                                           *)
(***************************************************************************)
\* C20: a native token balance above the dust threshold whose price is resolved is
\* a holding of its chain also when its metadata lookup failed.
C20_AsStated ==
  \A i \in DOMAIN chainPortfolios :
    \A k \in DOMAIN chainBalances[i].balances :
      (/\ ToLowerCase(chainBalances[i].balances[k].address) = NATIVE_TOKEN
       /\ chainBalances[i].balances[k].balance > DUST_THRESHOLD
       /\ NATIVE_TOKEN \in DOMAIN pipelines[i].priceMap
       /\ NATIVE_TOKEN \notin pipelines[i].tokenMap)
        => /\ <<i, k>> \in Range(chainPortfolios[i].tokens)
           /\ chainPortfolios[i].totalValueUSD >= heap[<<i, k>>].valueUSD
           /\ heap[<<i, k>>].valueUSD > 0

(***************************************************************************)
(* Claims about calculateTotalValue                                        *)
(***************************************************************************)
\* the total the balances are worth at the prices, each address with the decimals
\* supplied for it
Worth(balances, tokenDecimals, prices) ==
  SumAmounts([i \in DOMAIN balances |->
     IF Has(prices, ToLowerCase(balances[i].address)) /\ balances[i].balance # 0
     THEN TokenValue(balances[i].balance,
                     tokenDecimals[ToLowerCase(balances[i].address)],
                     prices[ToLowerCase(balances[i].address)])
     ELSE Amount(0, 0)])

\* C21: calculateTotalValue returns, without an error, the sum over the addresses
\* with a known price and a non-zero balance of (balance / 10^decimals) * price,
\* with the decimals supplied for the address, 0 included.
C21_AsStated ==
  total.op = "value" =>
    /\ ~total.threw
    /\ total.value = Worth(total.balances, total.tokenDecimals, total.prices)

(***************************************************************************)
(* Claims about the chat                                                   *)
(***************************************************************************)
\* C22: once the component is unmounted the chat client the hook created has been
\* disconnected.
C22_AsStated ==
  (chatHook.mounted = "unmounted" /\ chatClient.clientId # "") =>
    /\ chatClient.isIntentionalDisconnect
    /\ chatClient.ws = "null"

\* C28: the client makes at most maxReconnectAttempts reconnects in a row without
\* an open socket in between, the timer of the k-th of them is set to
\* min(1000 * k, 10000) ms, none is set after the 5th has failed, and no reconnect
\* is begun after disconnect().
C28_AsStated ==
  /\ [](/\ chatClient.streak <= MAX_RECONNECT_ATTEMPTS
        /\ (chatClient.timers > 0 /\ ~chatClient.isIntentionalDisconnect) =>
              chatClient.delay = Min(RECONNECT_DELAY * (chatClient.streak + 1), MAX_DELAY)
        /\ (chatClient.streak = MAX_RECONNECT_ATTEMPTS /\ chatClient.ws = "closed") =>
              chatClient.timers = 0)
  /\ [][(chatClient.isIntentionalDisconnect /\ ReconnectTimer) =>
          chatClient'.ws = chatClient.ws]_vars

\* the effects of sendMessage(content) on the hook and on the client, as the claim
\* C23 states them
SendEffects(content) ==
  /\ ~IsConnected =>
        /\ chatClient' = chatClient
        /\ chatHook'.messages = chatHook.messages
        /\ chatHook'.isTyping = chatHook.isTyping
  /\ IsConnected =>
        /\ chatHook'.messages =
             Append(chatHook.messages, [role |-> "user", content |-> content])
        /\ chatClient'.sent = chatClient.sent + 1
        /\ chatClient'.content = content
        /\ chatHook'.isTyping

\* C23 (as stated): sendMessage while not connected sends nothing, appends no
\* message and leaves the typing indicator as it is; while connected it appends
\* exactly one user message, sends the content once and sets isTyping, which stays
\* true until an ai_response arrives.
C23_AsStated ==
  [][/\ \A content \in Contents : SendMessage(content) => SendEffects(content)
     /\ (chatHook.isTyping /\ ~chatHook'.isTyping) => MessageArrives("ai_response")]_vars

\* C23 (amended): the same effects of sendMessage; the typing indicator falls only
\* when an ai_response arrives or when the socket is opened again (the onOpen
\* callback resets it).
C23_SendMessage ==
  [][/\ \A content \in Contents : SendMessage(content) => SendEffects(content)
     /\ (chatHook.isTyping /\ ~chatHook'.isTyping) =>
           (MessageArrives("ai_response") \/ SocketOpens)]_vars

\* one call refused while not connected, one sent while connected and answered
C23_Witness ==
  /\ chatHook.asked = 2
  /\ chatClient.sent = 1
  /\ Len(chatHook.messages) = 2
  /\ chatHook.messages[1].role = "user"
  /\ chatHook.messages[2].role = "assistant"
  /\ ~chatHook.isTyping

\* C24 (as stated): in every returned Portfolio the chains are ordered by descending
\* totalValueUSD and the holdings of each chain by descending valueUSD, whatever the
\* order of chainIds and the order in which the fetches complete.
C24_AsStated ==
  pc = "done" =>
    /\ \A i, j \in DOMAIN portfolio.chains :
         i < j => portfolio.chains[i].totalValueUSD >= portfolio.chains[j].totalValueUSD
    /\ \A i \in DOMAIN portfolio.chains :
         \A k, l \in DOMAIN portfolio.chains[i].tokens :
           k < l => heap[portfolio.chains[i].tokens[k]].valueUSD >=
                      heap[portfolio.chains[i].tokens[l]].valueUSD

\* C25 (as stated): overlapping lookups of one cold key may each fetch; each returns
\* the value it fetched, and the cache afterwards holds one entry for the key, the
\* value of the fill that completed last stamped with that completion time; and no
\* key is ever valid by its timestamp while no value is stored for it.
C25_AsStated ==
  /\ [](/\ \A c \in CacheChains :
            TokensIsCacheValid(tokenTimestamps, c, now) =>
              Has(tokenCache, c) /\ tokenCache[c].defined
        /\ \A c \in CacheChains, l \in AddressLists \ {<<>>} :
            PricesIsCacheValid(priceTimestamps, PriceCacheKey(c, l), now) =>
              Has(priceCache, PriceCacheKey(c, l)))
  /\ [][/\ \A f \in flights, resp \in TokensResponses :
            (resp.status = "ok" /\ f.kind = "tokens" /\ f \notin flights'
               /\ TokensArrive(f, resp)) =>
              /\ TokensSettle(resp, f.chain, now).value = resp.tokens
              /\ tokenCache'[f.chain] = resp.tokens
              /\ tokenTimestamps'[f.chain] = now
        /\ \A f \in flights :
            f.kind = "prices" =>
              \A resp \in PricesResponses(f.q) :
                (resp.status = "ok" /\ f \notin flights' /\ PricesArrive(f, resp)) =>
                  /\ PricesSettle(resp, PriceKeyOf(f), now).value = resp.prices
                  /\ priceCache'[PriceKeyOf(f)] = resp.prices
                  /\ priceTimestamps'[PriceKeyOf(f)] = now]_vars

\* C26: however the requests of the callers sharing the client interleave, at most
\* MAX_REQUESTS_PER_MINUTE (30) network calls are dispatched for an endpoint key
\* within one window, and the count of the window equals the number of requests
\* that passed the check in it.
C26_WindowCount ==
  \A e \in RateEndpoints :
    /\ Get(calls, e, 0) <= MAX_REQUESTS_PER_MINUTE
    /\ Has(rateLimitState, e) <=> Get(calls, e, 0) > 0
    /\ Has(rateLimitState, e) => rateLimitState[e].requests = calls[e]

\* one key has its window full and a request refused, while the window of another
\* key, opened in between, is partly used
C26_Witness ==
  \E e, f \in RateEndpoints :
    /\ e # f
    /\ Get(calls, e, 0) = MAX_REQUESTS_PER_MINUTE
    /\ Get(issued, e, 0) > MAX_REQUESTS_PER_MINUTE
    /\ Get(calls, f, 0) > 1
    /\ Get(calls, f, 0) < MAX_REQUESTS_PER_MINUTE
    /\ Get(opened, f, 0) > Get(opened, e, 0)

\* C27: topTokens of a returned Portfolio lists min(10, number of holdings of all
\* chains) holdings, each once, in order of non-increasing valueUSD, and no holding
\* left out of it is worth more than a holding in it.
C27_TopTokens ==
  pc = "done" =>
    LET top == portfolio.topTokens
        n == Cardinality(ChainTokens)
    IN /\ Len(top) = IF n < TOP_LIMIT THEN n ELSE TOP_LIMIT
       /\ Range(top) \subseteq ChainTokens
       /\ Cardinality(Range(top)) = Len(top)
       /\ \A k, l \in DOMAIN top : k < l => heap[top[k]].valueUSD >= heap[top[l]].valueUSD
       /\ \A r \in ChainTokens \ Range(top) : \A t \in Range(top) :
            heap[r].valueUSD <= heap[t].valueUSD

\* a Portfolio of more than 10 holdings: the 10 listed leave out a holding worth
\* less than the least of them
C27_Witness ==
  /\ pc = "done"
  /\ Cardinality(ChainTokens) > TOP_LIMIT
  /\ Len(portfolio.topTokens) = TOP_LIMIT
  /\ \E r \in ChainTokens \ Range(portfolio.topTokens) :
       heap[r].valueUSD < heap[portfolio.topTokens[TOP_LIMIT]].valueUSD

\* C29: on a client without an API key, getPortfolio returns the empty Portfolio
\* (totalValueUSD 0, no chains, no topTokens) without throwing; no network call is
\* dispatched and no rate-limit window is created or changed.
C29_NoApiKey ==
  (initError /\ pc # "idle") =>
    /\ pc = "done"
    /\ portfolio = NoPortfolio
    /\ flights = {}
    /\ calls = EmptyMap
    /\ rateLimitState = EmptyMap

\* getPortfolio of two chains has returned on a client without an API key, the
\* request of the second chain's balances being the last one refused
C29_Witness ==
  /\ initError
  /\ pc = "done"
  /\ Len(chainIds) = 2
  /\ \A i \in DOMAIN balanceResults : balanceResults[i].state # "ok"
  /\ last.result = "init_error"
  /\ portfolio.chains = <<>>

\* C30 (as stated): whenever a risk level is derived for a non-empty portfolio, the
\* largest allocation given to the rule table is the greatest allocation of all the
\* holdings scored, whatever their order in the input: in getPortfolioStats and in
\* assessRisk of the usePortfolioStats hooks.
C30_AsStated ==
  /\ (stats.op = "service" /\ stats.tokens # <<>>) =>
        \A i \in DOMAIN stats.allocations : stats.allocations[i] <= stats.largest
  /\ (stats.op \in {"hook", "guarded"} /\ stats.tokens # <<>>) =>
        \A i \in DOMAIN stats.tokens : stats.tokens[i] <= stats.largest
====
